---- MODULE Spec2Model ----
(***************************************************************************)
(* Model of the collection engine of isar-core (src/src/collection.rs):    *)
(* primary storage, secondary index maintenance, link maintenance, id      *)
(* generation and change registration inside one open write transaction;   *)
(* of write transactions with watchers, of threads sharing a collection    *)
(* of the query builder (src/src/query/query_builder.rs), of the filters   *)
(* (src/src/query/filter.rs) and of the error codes of the bridge          *)
(* (src/dart-ffi/src/error.rs).                                            *)
(***************************************************************************)
EXTENDS Integers, Sequences, FiniteSets, TLC

(* ------------------------------------------------------------------ *)
(* Bounds                                                               *)
(* ------------------------------------------------------------------ *)

\* width of the id integer type, scaled down from 64 bits
IntBits == 3
\* the MaxPutId ids below the largest id are written besides the largest id
MaxPutId == 1
\* the second indexed property takes the values 1..NumVals
NumVals == 2
\* most edges a link holds at a time
MaxLinks == 2
\* most where clauses added to a query builder
MaxClauses == 1
\* most sort properties added to a query builder
MaxSorts == 2

(* ------------------------------------------------------------------ *)
(* Integers of the id type (i64)                                        *)
(* ------------------------------------------------------------------ *)

I64_MAX == 2 ^ (IntBits - 1) - 1
I64_MIN == 0 - 2 ^ (IntBits - 1)

\* two's complement wrap-around into the id type
wrapping == [x \in (2 * I64_MIN)..(2 * I64_MAX + 1) |->
               ((x - I64_MIN) % (2 ^ IntBits)) + I64_MIN]

\* utils::MAX_OID / MIN_OID: the largest and smallest object id
MAX_OID == I64_MAX
MIN_OID == I64_MIN

\* the outcomes of i64 `a + b`: the sum, or on overflow either a panic
\* (build with overflow checks) or the wrapped sum (build without)
add_i64(a, b) ==
    IF a + b > I64_MAX \/ a + b < I64_MIN
    THEN {[panic |-> TRUE, value |-> 0], [panic |-> FALSE, value |-> wrapping[a + b]]}
    ELSE {[panic |-> FALSE, value |-> a + b]}

(* ------------------------------------------------------------------ *)
(* Objects, keys, schema                                                *)
(* ------------------------------------------------------------------ *)

None == [none |-> TRUE]

\* below every id: no id put or handed out yet
NoId == I64_MIN - 1

\* the id of the modelled collection (IsarCollection.id)
id == 1
\* the id of a second collection of the same instance
other_id == 2

Oids == (MAX_OID - MaxPutId)..MAX_OID
\* where links are followed a negative id is written too
LinkOids == Oids \cup {MIN_OID}
Vals == 1..NumVals
\* the first indexed property is a Byte used as Bool
Bools == {0, 1}

\* an object's bytes: the oid property, two indexed properties and whether
\* the byte layout is well-formed
ValidObjects == [oid : Oids, a : Bools, b : Vals, ok : {TRUE}]
InvalidObjects == [oid : Oids, a : {1}, b : {1}, ok : {FALSE}]
Objects == ValidObjects \cup InvalidObjects

\* the objects written where links are followed
LinkObjects == [oid : LinkOids, a : {1}, b : {1}, ok : BOOLEAN]

\* object.read_long(self.get_oid_property())
read_long(object) == object.oid

\* ObjectInfo::verify_object
verify_object(object) == object.ok

\* utils::oid_to_bytes / oid_from_bytes: the primary key bytes
oid_to_bytes(oid, prefix) == <<prefix, oid>>
oid_from_bytes(bytes) == <<bytes[2], bytes[1]>>

PKeys == {oid_to_bytes(o, id) : o \in LinkOids}

\* an index of the collection
plain(i, p) == [id |-> i, prop |-> p, unique |-> FALSE, replace |-> FALSE]
uniq(i, p) == [id |-> i, prop |-> p, unique |-> TRUE, replace |-> FALSE]
repl(i, p) == [id |-> i, prop |-> p, unique |-> TRUE, replace |-> TRUE]

\* the index lists a collection is created with
Schemas == { <<plain(1, "a")>>,
             <<plain(1, "a"), uniq(2, "b")>>,
             <<plain(1, "a"), repl(2, "b")>> }

\* Index::does_replace
does_replace(index) == index.replace

\* the index key of an object (index key codec, one key per object)
key_of(index, object) == IF index.prop = "a" THEN object.a ELSE object.b

\* the (index id, key, primary key) entry an index holds for an object
index_entry(index, oid, object) ==
    <<index.id, key_of(index, object), oid_to_bytes(oid, id)>>

VARIABLES
    indexes,      \* IsarCollection.indexes
    primary,      \* the primary database: primary key -> object bytes
    secondary,    \* the secondary database: set of index entries
    links,        \* the link database: set of <<direction, from, to>>
    change_set,   \* the transaction's Option<ChangeSet>
    oid_counter,  \* IsarCollection.oid_counter
    last,         \* the last call and its result
    issued,       \* the largest id put or handed out so far (history)
    txn,          \* the transaction of the instance: open or not, and the
                  \* databases as they were when it began
    threads,      \* per thread: the transaction it holds and its position
                  \* inside auto_increment
    qb,           \* the QueryBuilder in use, None when there is none
    query,        \* the Query built last, None when there is none
    record,       \* the (id, object) pair handed to filter evaluation
    errors,       \* the ERRORS buffer of the bridge: messages and counter
    calls         \* the add_*_where_clause calls made on the builder

vars == <<indexes, primary, secondary, links, change_set, oid_counter, last,
          issued, txn, threads, qb, query, record, errors, calls>>

\* the state outside the collection and its databases
ext == <<txn, threads, qb, query, record, errors, calls>>

\* static ERRORS: no message, the counter at 1
NoErrors == [list |-> <<>>, counter |-> 1]

\* no add_*_where_clause call has returned Ok since the builder was created
NoCalls == [added |-> 0, nonempty |-> 0]

\* the threads calling into the instance
Threads == {"t1", "t2"}

\* a thread that holds no transaction and is in no call
IdleThread == [txn |-> "none", pc |-> "idle", counter |-> 0]

\* the databases reached through the cursors of the open transaction
Db == [primary |-> primary, secondary |-> secondary, links |-> links,
       change_set |-> change_set]

(* ------------------------------------------------------------------ *)
(* Index and Link                                                       *)
(* ------------------------------------------------------------------ *)

\* Index::delete_for_object: remove the entry computed from the object
index_delete_for_object(db, index, oid, object) ==
    [db EXCEPT !.secondary = @ \ {index_entry(index, oid, object)}]

\* Index::create_for_object: unique reads first and fails if present
create_for_object(db, index, oid, object) ==
    IF index.unique /\ \E e \in db.secondary :
                           e[1] = index.id /\ e[2] = key_of(index, object)
    THEN [err |-> "UniqueViolation", db |-> db]
    ELSE [err |-> "Ok",
          db |-> [db EXCEPT !.secondary =
                               @ \cup {index_entry(index, oid, object)}]]

\* Index::new_where_clause(false, Ascending).iter: the primary keys
\* found in the index's key range
new_where_clause(db, index) == {e[3] : e \in {x \in db.secondary : x[1] = index.id}}

\* Link::delete_for_object: remove every entry mentioning the oid
link_delete_for_object(db, oid) ==
    [db EXCEPT !.links = {l \in @ : l[2] # oid /\ l[3] # oid}]

\* Link::create: both entries of the edge from source to target
link_create(db, source, target) ==
    [db EXCEPT !.links = @ \cup {<<"fwd", source, target>>, <<"bwd", target, source>>}]

\* the Option<&mut ChangeSet> a write hands to the collection: None for a
\* transaction that records no changes, Some(set of (collection, oid,
\* object))
NoChangeSet == [some |-> FALSE, changes |-> {}]
SomeChangeSet(changes) == [some |-> TRUE, changes |-> changes]

\* a collection that never registers a change
register_change_none(db, col, oid, object) == db

\* a change registered under every collection of the instance
register_change_every_collection(db, col, oid, object) ==
    IF db.change_set.some
    THEN [db EXCEPT !.change_set.changes =
                       @ \cup {<<id, oid, object>>, <<other_id, oid, object>>}]
    ELSE db

\* if let Some(change_set) = change_set { change_set.register_change(..) }
register_change(db, col, oid, object) ==
    IF db.change_set.some
    THEN [db EXCEPT !.change_set.changes = @ \cup {<<col, oid, object>>}]
    ELSE db

(* ------------------------------------------------------------------ *)
(* IsarCollection                                                       *)
(* ------------------------------------------------------------------ *)

update_oid_counter(counter, w) == IF w > counter THEN w ELSE counter

get(db, oid) == db.primary[oid_to_bytes(oid, id)]

RECURSIVE delete_indexes(_, _, _, _)
delete_indexes(db, i, oid, object) ==
    IF i > Len(indexes) THEN db
    ELSE delete_indexes(index_delete_for_object(db, indexes[i], oid, object),
                        i + 1, oid, object)

\* a removal that registers a change for an id that is not stored
delete_object_internal_phantom(db, oid) ==
    LET oid_bytes == oid_to_bytes(oid, id)
        object == db.primary[oid_bytes]
    IN IF object # None
       THEN [ok |-> TRUE,
             db |-> [register_change(delete_indexes(db, 1, oid, object), id, oid,
                                     object)
                        EXCEPT !.primary[oid_bytes] = None]]
       ELSE [ok |-> FALSE,
             db |-> register_change(db, id, oid,
                                    [oid |-> oid, a |-> 1, b |-> 1, ok |-> TRUE])]

delete_object_internal(db, oid) ==
    LET oid_bytes == oid_to_bytes(oid, id)
        object == db.primary[oid_bytes]
    IN IF object # None
       THEN [ok |-> TRUE,
             db |-> [register_change(delete_indexes(db, 1, oid, object), id, oid,
                                     object)
                        EXCEPT !.primary[oid_bytes] = None]]
       ELSE [ok |-> FALSE, db |-> db]

\* a delete that forgets the links
delete_internal_no_links(db, oid) == delete_object_internal(db, oid)

delete_internal(db, oid) ==
    LET r == delete_object_internal(db, oid)
    IN IF r.ok THEN [ok |-> TRUE, db |-> link_delete_for_object(r.db, oid)]
       ELSE [ok |-> FALSE, db |-> r.db]

\* delete_internal for each primary key a where clause / query yields
RECURSIVE delete_all(_, _)
delete_all(db, keys) ==
    IF keys = {} THEN db
    ELSE LET k == CHOOSE x \in keys : TRUE
         IN delete_all(delete_internal(db, oid_from_bytes(k)[1]).db, keys \ {k})

\* a put that creates no index entry
put_indexes_none(db, i, oid, object) == [err |-> "Ok", db |-> db]

\* the loop over self.indexes of put_internal, from index i on
RECURSIVE put_indexes(_, _, _, _)
put_indexes(db, i, oid, object) ==
    IF i > Len(indexes) THEN [err |-> "Ok", db |-> db]
    ELSE LET index == indexes[i]
             db1 == IF does_replace(index)
                    THEN delete_all(db, new_where_clause(db, index))
                    ELSE db
             r == create_for_object(db1, index, oid, object)
         IN IF r.err # "Ok" THEN r
            ELSE put_indexes(r.db, i + 1, oid, object)

\* a put that never writes the primary entry
primary_put_lost(db, oid, object) == db

\* a put whose primary key carries another collection's prefix
primary_put_other_prefix(db, oid, object) ==
    [db EXCEPT !.primary[oid_to_bytes(oid, other_id)] = object]

\* cursors.primary.put(Key(&oid_bytes), object.as_bytes())
primary_put(db, oid, object) ==
    [db EXCEPT !.primary[oid_to_bytes(oid, id)] = object]

\* a put that leaves the old object and its index entries in place
put_delete_old_skipped(db, oid) == db

\* a put that removes the old object through delete_internal, links included
put_delete_old_with_links(db, oid) == delete_internal(db, oid).db

\* a put that removes the old object without registering the removal
put_delete_old_unregistered(db, oid) ==
    [delete_object_internal(db, oid).db EXCEPT !.change_set = db.change_set]

\* the removal of the object stored under the oid that put_internal starts with
put_delete_old(db, oid) == delete_object_internal(db, oid).db

put_internal(db, counter, object) ==
    LET oid == read_long(object)
        db1 == put_delete_old(db, oid)
        counter1 == update_oid_counter(counter, oid)
    IN IF ~verify_object(object)
       THEN [err |-> "InvalidObject", db |-> db1, counter |-> counter1]
       ELSE LET r == put_indexes(db1, 1, oid, object)
            IN IF r.err # "Ok"
               THEN [err |-> r.err, db |-> r.db, counter |-> counter1]
               ELSE [err |-> "Ok",
                     db |-> register_change(primary_put(r.db, oid, object),
                                            id, oid, object),
                     counter |-> counter1]

(* ------------------------------------------------------------------ *)
(* Operations of an open write transaction                              *)
(* ------------------------------------------------------------------ *)

\* the write transaction the collection operations run in, holding the
\* databases as they were at begin_txn; ClosedTxn when none is open
OpenTxn(db) == [open |-> TRUE, begin |-> db]
ClosedTxn == [open |-> FALSE, begin |-> None]

\* the empty databases of a new instance
EmptyDb(keys) == [primary |-> [k \in keys |-> None], secondary |-> {},
                  links |-> {}, change_set |-> NoChangeSet]

Store(db) ==
    /\ primary' = db.primary
    /\ secondary' = db.secondary
    /\ links' = db.links
    /\ change_set' = db.change_set

Init ==
    /\ indexes \in Schemas
    /\ primary = [k \in PKeys |-> None]
    /\ secondary = {}
    /\ links = {}
    /\ change_set = NoChangeSet
    /\ oid_counter = 0
    /\ last = [op |-> "new"]
    /\ issued = NoId
    /\ txn = OpenTxn(EmptyDb(PKeys))
    /\ threads = [t \in Threads |-> IdleThread]
    /\ qb = None
    /\ query = None
    /\ record = None
    /\ errors = NoErrors
    /\ calls = NoCalls

Max(x, y) == IF x > y THEN x ELSE y

\* the link entries mentioning an oid
mentioning(lnk, oid) == {l \in lnk : l[2] = oid \/ l[3] = oid}

\* a scan that misses the records with negative ids
stored_keys_nonnegative(db) ==
    {k \in PKeys : db.primary[k] # None /\ oid_from_bytes(k)[1] >= 0}

\* the primary keys of the stored records of the collection
stored_keys(db) == {k \in PKeys : db.primary[k] # None}

Put(object) ==
    LET r == put_internal(Db, oid_counter, object)
    IN /\ Store(r.db)
       /\ oid_counter' = r.counter
       /\ last' = [op |-> "put", object |-> object, res |-> r.err,
                   existed |-> get(Db, read_long(object)) # None]
       /\ issued' = IF r.err = "Ok" THEN Max(issued, read_long(object)) ELSE issued
       /\ UNCHANGED indexes
       /\ UNCHANGED ext

Delete(oid) ==
    LET r == delete_internal(Db, oid)
    IN /\ Store(r.db)
       /\ last' = [op |-> "delete", oid |-> oid, res |-> r.ok,
                   linked |-> mentioning(links, oid) # {}]
       /\ UNCHANGED <<indexes, oid_counter, issued>>
       /\ UNCHANGED ext

\* clear: the query without where clause deletes every record it finds
Clear ==
    LET keys == stored_keys(Db)
    IN /\ Store(delete_all(Db, keys))
       /\ last' = [op |-> "clear", res |-> Cardinality(keys)]
       /\ UNCHANGED <<indexes, oid_counter, issued>>
       /\ UNCHANGED ext

AutoIncrement ==
    \E counter \in add_i64(oid_counter, 1) :
        /\ UNCHANGED ext
        /\ IF counter.panic
           THEN /\ last' = [op |-> "auto_increment", res |-> "panic"]
                /\ UNCHANGED <<indexes, primary, secondary, links, change_set,
                               oid_counter, issued>>
           ELSE IF counter.value <= MAX_OID
           THEN /\ oid_counter' = counter.value
                /\ last' = [op |-> "auto_increment", res |-> "Ok",
                            value |-> counter.value]
                /\ issued' = Max(issued, counter.value)
                /\ UNCHANGED <<indexes, primary, secondary, links, change_set>>
           ELSE /\ last' = [op |-> "auto_increment",
                            res |-> "AutoIncrementOverflow"]
                /\ UNCHANGED <<indexes, primary, secondary, links, change_set,
                               oid_counter, issued>>

\* Link::create between two stored records
LinkCreate(source, target) ==
    /\ get(Db, source) # None
    /\ get(Db, target) # None
    /\ Cardinality({l \in links : l[1] = "fwd"}) < MaxLinks
    /\ Store(link_create(Db, source, target))
    /\ last' = [op |-> "link", source |-> source, target |-> target]
    /\ UNCHANGED <<indexes, oid_counter, issued>>
    /\ UNCHANGED ext

Next ==
    \/ \E object \in Objects : Put(object)
    \/ \E oid \in Oids : Delete(oid)
    \/ Clear
    \/ AutoIncrement

Spec == Init /\ [][Next]_vars

NextLinks ==
    \/ \E object \in LinkObjects : Put(object)
    \/ \E oid \in LinkOids : Delete(oid)
    \/ Clear
    \/ \E source \in LinkOids, target \in LinkOids : LinkCreate(source, target)

SpecLinks == Init /\ [][NextLinks]_vars

(* ------------------------------------------------------------------ *)
(* Two collections in the shared primary database                       *)
(* ------------------------------------------------------------------ *)

\* the primary keys and objects of the second collection, which has no
\* index and no link
\* the ids written in the second collection
OtherOids == {MAX_OID}
OtherKeys == {oid_to_bytes(o, other_id) : o \in OtherOids}
OtherObjects == [oid : OtherOids, a : {0}, b : {1}, ok : {TRUE}]

\* get of the second collection
get_other(db, oid) == db.primary[oid_to_bytes(oid, other_id)]

InitTwo ==
    /\ indexes \in Schemas
    /\ primary = [k \in PKeys \cup OtherKeys |-> None]
    /\ secondary = {}
    /\ links = {}
    /\ change_set = NoChangeSet
    /\ oid_counter = 0
    /\ last = [op |-> "new"]
    /\ issued = NoId
    /\ txn = OpenTxn(EmptyDb(PKeys \cup OtherKeys))
    /\ threads = [t \in Threads |-> IdleThread]
    /\ qb = None
    /\ query = None
    /\ record = None
    /\ errors = NoErrors
    /\ calls = NoCalls

\* put of the second collection: with no index, put_internal deletes the
\* old primary entry and writes the new one
PutOther(object) ==
    LET oid == read_long(object)
        old == get_other(Db, oid)
        db1 == IF old # None THEN register_change(Db, other_id, oid, old) ELSE Db
        db2 == [db1 EXCEPT !.primary[oid_to_bytes(oid, other_id)] = object]
    IN /\ Store(register_change(db2, other_id, oid, object))
       /\ last' = [op |-> "put_other", object |-> object, res |-> "Ok"]
       /\ UNCHANGED <<indexes, oid_counter, issued>>
       /\ UNCHANGED ext

\* delete of the second collection
DeleteOther(oid) ==
    LET old == get_other(Db, oid)
        db1 == IF old # None THEN register_change(Db, other_id, oid, old) ELSE Db
    IN /\ Store([db1 EXCEPT !.primary[oid_to_bytes(oid, other_id)] = None])
       /\ last' = [op |-> "delete_other", oid |-> oid, res |-> old # None]
       /\ UNCHANGED <<indexes, oid_counter, issued>>
       /\ UNCHANGED ext

NextTwo ==
    \/ \E object \in LinkObjects : Put(object)
    \/ \E oid \in LinkOids : Delete(oid)
    \/ Clear
    \/ \E source \in LinkOids, target \in LinkOids : LinkCreate(source, target)
    \/ \E object \in OtherObjects : PutOther(object)
    \/ \E oid \in OtherOids : DeleteOther(oid)

SpecTwo == InitTwo /\ [][NextTwo]_vars

(* ------------------------------------------------------------------ *)
(* Transactions and watchers                                            *)
(* ------------------------------------------------------------------ *)

\* the ids and objects written where watchers are registered
WatchOids == {MAX_OID - 1, MAX_OID}
WatchObjects == [oid : WatchOids, a : {1}, b : Vals, ok : {TRUE}]
                   \cup [oid : WatchOids, a : {1}, b : {1}, ok : {FALSE}]

\* the index lists of the watched collection
WatchSchemas == { <<plain(1, "a")>>, <<plain(1, "a"), repl(2, "b")>> }

\* isar.watch_collection(col, callback)
watch_collection(col) ==
    [kind |-> "collection", col |-> col, lower |-> MIN_OID, upper |-> MAX_OID,
     lo |-> 1, hi |-> NumVals]

\* isar.watch_query(col, q, callback) for a query with the id range
\* lower..upper and the filter LongBetweenCond::filter(b, lo, hi)
watch_query(col, lower, upper, lo, hi) ==
    [kind |-> "query", col |-> col, lower |-> lower, upper |-> upper,
     lo |-> lo, hi |-> hi]

\* the queries q1 and q2 of test_put_calls_notifiers and a query on one id
q1 == watch_query(id, MIN_OID, MAX_OID, 1, 1)
q2 == watch_query(id, MIN_OID, MAX_OID, NumVals, NumVals)
q3 == watch_query(id, MAX_OID, MAX_OID, 1, NumVals)

\* the watcher registry of the instance
Watchers == {watch_collection(id), watch_collection(other_id), q1, q2, q3}

\* whether a watcher is concerned by a change (collection, oid, object)
matches(w, col, oid, object) ==
    /\ w.col = col
    /\ \/ w.kind = "collection"
       \/ /\ w.lower <= oid /\ oid <= w.upper
          /\ w.lo <= object.b /\ object.b <= w.hi

\* a dispatch that invokes a callback for every matching change
notify_watchers_per_change(changes) ==
    [w \in Watchers |-> Cardinality({c \in changes : matches(w, c[1], c[2], c[3])})]

\* the dispatch after commit: the number of times each callback is invoked
notify_watchers(changes) ==
    [w \in Watchers |->
        IF \E c \in changes : matches(w, c[1], c[2], c[3]) THEN 1 ELSE 0]

InitWatch ==
    /\ indexes \in WatchSchemas
    /\ primary = [k \in PKeys \cup OtherKeys |-> None]
    /\ secondary = {}
    /\ links = {}
    /\ change_set = NoChangeSet
    /\ oid_counter = 0
    /\ last = [op |-> "new"]
    /\ issued = NoId
    /\ txn = ClosedTxn
    /\ threads = [t \in Threads |-> IdleThread]
    /\ qb = None
    /\ query = None
    /\ record = None
    /\ errors = NoErrors
    /\ calls = NoCalls

\* isar.begin_txn(true, false): a write transaction with a fresh change set
BeginTxn ==
    /\ ~txn.open
    /\ change_set' = SomeChangeSet({})
    /\ txn' = OpenTxn([Db EXCEPT !.change_set = SomeChangeSet({})])
    /\ last' = [op |-> "begin_txn"]
    /\ UNCHANGED <<indexes, primary, secondary, links, oid_counter, issued, threads,
                   record, errors, calls,
                   qb, query>>

\* txn.commit(): the writes stay, the change set goes to the dispatcher
Commit ==
    /\ txn.open
    /\ change_set' = NoChangeSet
    /\ txn' = ClosedTxn
    /\ last' = [op |-> "commit", changes |-> change_set.changes,
                fired |-> notify_watchers(change_set.changes)]
    /\ UNCHANGED <<indexes, primary, secondary, links, oid_counter, issued, threads,
                   record, errors, calls,
                   qb, query>>

\* an abort that keeps the change set for the next transaction
AbortKeepsChanges ==
    /\ txn.open
    /\ primary' = txn.begin.primary
    /\ secondary' = txn.begin.secondary
    /\ links' = txn.begin.links
    /\ txn' = ClosedTxn
    /\ last' = [op |-> "abort", dropped |-> {}]
    /\ UNCHANGED <<indexes, change_set, oid_counter, issued, threads,
                   record, errors, calls,
                   qb, query>>

\* txn.abort() or drop without commit: the writes and the change set are
\* discarded, no callback is invoked
Abort ==
    /\ txn.open
    /\ primary' = txn.begin.primary
    /\ secondary' = txn.begin.secondary
    /\ links' = txn.begin.links
    /\ change_set' = NoChangeSet
    /\ txn' = ClosedTxn
    /\ last' = [op |-> "abort", dropped |-> change_set.changes]
    /\ UNCHANGED <<indexes, oid_counter, issued, threads,
                   record, errors, calls,
                   qb, query>>

NextWatch ==
    \/ BeginTxn
    \/ Commit
    \/ Abort
    \/ \E object \in WatchObjects : txn.open /\ Put(object)
    \/ \E oid \in WatchOids : txn.open /\ Delete(oid)
    \/ txn.open /\ Clear
    \/ \E object \in OtherObjects : txn.open /\ PutOther(object)

SpecWatch == InitWatch /\ [][NextWatch]_vars

(* ------------------------------------------------------------------ *)
(* Threads calling auto_increment                                       *)
(* ------------------------------------------------------------------ *)

InitThreads ==
    /\ indexes = <<plain(1, "a")>>
    /\ primary = [k \in PKeys |-> None]
    /\ secondary = {}
    /\ links = {}
    /\ change_set = NoChangeSet
    /\ oid_counter = 0
    /\ last = [op |-> "new"]
    /\ issued = NoId
    /\ txn = ClosedTxn
    /\ threads = [t \in Threads |-> IdleThread]
    /\ qb = None
    /\ query = None
    /\ record = None
    /\ errors = NoErrors
    /\ calls = NoCalls

\* a thread begins a read or a write transaction; the write transaction
\* waits for the instance-wide write lock
ThreadBeginTxn(t, write) ==
    /\ threads[t].txn = "none"
    /\ write => \A u \in Threads : threads[u].txn # "write"
    /\ threads' = [threads EXCEPT ![t].txn = IF write THEN "write" ELSE "read"]
    /\ last' = [op |-> "begin_txn", thread |-> t]
    /\ UNCHANGED <<indexes, primary, secondary, links, change_set, oid_counter,
                   issued, txn, qb, query,
                   record, errors, calls>>

\* a thread ends its transaction between two calls
ThreadEndTxn(t) ==
    /\ threads[t].txn # "none"
    /\ threads[t].pc = "idle"
    /\ threads' = [threads EXCEPT ![t].txn = "none"]
    /\ last' = [op |-> "end_txn", thread |-> t]
    /\ UNCHANGED <<indexes, primary, secondary, links, change_set, oid_counter,
                   issued, txn, qb, query,
                   record, errors, calls>>

\* auto_increment, first half: let counter = self.oid_counter.get().add(1)
\* with any transaction, the _txn argument being unused
AutoIncrementLoad(t) ==
    /\ threads[t].txn # "none"
    /\ threads[t].pc = "idle"
    /\ \E counter \in add_i64(oid_counter, 1) :
          IF counter.panic
          THEN /\ last' = [op |-> "auto_increment", thread |-> t, res |-> "panic"]
               /\ UNCHANGED threads
          ELSE /\ threads' = [threads EXCEPT ![t].pc = "loaded",
                                             ![t].counter = counter.value]
               /\ last' = [op |-> "load", thread |-> t]
    /\ UNCHANGED <<indexes, primary, secondary, links, change_set, oid_counter,
                   issued, txn, qb, query,
                   record, errors, calls>>

\* auto_increment, second half: the test against MAX_OID, the store into
\* the Cell and the return
AutoIncrementStore(t) ==
    /\ threads[t].pc = "loaded"
    /\ threads' = [threads EXCEPT ![t].pc = "idle", ![t].counter = 0]
    /\ IF threads[t].counter <= MAX_OID
       THEN /\ oid_counter' = threads[t].counter
            /\ last' = [op |-> "auto_increment", thread |-> t, res |-> "Ok",
                        value |-> threads[t].counter]
            /\ issued' = Max(issued, threads[t].counter)
       ELSE /\ last' = [op |-> "auto_increment", thread |-> t,
                        res |-> "AutoIncrementOverflow"]
            /\ UNCHANGED <<oid_counter, issued>>
    /\ UNCHANGED <<indexes, primary, secondary, links, change_set, txn, qb,
                   query, record, errors, calls>>

NextThreads ==
    \/ \E t \in Threads, write \in BOOLEAN : ThreadBeginTxn(t, write)
    \/ \E t \in Threads : ThreadEndTxn(t)
    \/ \E t \in Threads : AutoIncrementLoad(t)
    \/ \E t \in Threads : AutoIncrementStore(t)

SpecThreads == InitThreads /\ [][NextThreads]_vars

(* ------------------------------------------------------------------ *)
(* QueryBuilder and Query                                               *)
(* ------------------------------------------------------------------ *)

\* usize::MAX, at the width of the id type
USIZE_MAX == 2 ^ IntBits - 1

\* the offsets and limits passed to the builder
Counts == {0, 1, USIZE_MAX}

\* Option<Vec<WhereClause>>
NoWhereClauses == [some |-> FALSE, v |-> <<>>]

\* QueryBuilder::new
new_query_builder ==
    [where_clauses |-> NoWhereClauses, filter |-> None, sort |-> <<>>,
     distinct |-> <<>>, offset |-> 0, limit |-> USIZE_MAX]

init_where_clauses(b) ==
    IF ~b.where_clauses.some
    THEN [b EXCEPT !.where_clauses = [some |-> TRUE, v |-> <<>>]]
    ELSE b

\* IdWhereClause::new and IdWhereClause::is_empty
IdWhereClause(lower, upper, sort) ==
    [kind |-> "Id", lower |-> lower, upper |-> upper, sort |-> sort]
is_empty(wc) == wc.upper < wc.lower

add_id_where_clause(b, start, end) ==
    LET b1 == init_where_clauses(b)
        wc == IF start > end
              THEN IdWhereClause(end, start, "Descending")
              ELSE IdWhereClause(start, end, "Ascending")
    IN IF ~is_empty(wc)
       THEN [b1 EXCEPT !.where_clauses.v = Append(@, wc)]
       ELSE b1

set_offset(b, offset) == [b EXCEPT !.offset = offset]
set_limit(b, limit) == [b EXCEPT !.limit = limit]

\* Query::new
Query(where_clauses, filter, sort, distinct, offset, limit) ==
    [where_clauses |-> where_clauses, filter |-> filter, sort |-> sort,
     distinct |-> distinct, offset |-> offset, limit |-> limit]

\* a build that adds no where clause of its own
build_without_default(b) ==
    Query(b.where_clauses.v, b.filter, b.sort, b.distinct, b.offset, b.limit)

build(b) ==
    LET b1 == IF ~b.where_clauses.some
              THEN add_id_where_clause(b, I64_MIN, I64_MAX)
              ELSE b
    IN Query(b1.where_clauses.v, b1.filter, b1.sort, b1.distinct, b1.offset,
             b1.limit)

\* the elements of a set of ids in ascending order
RECURSIVE ascending(_)
ascending(ids) ==
    IF ids = {} THEN <<>>
    ELSE LET m == CHOOSE x \in ids : \A y \in ids : x <= y
         IN <<m>> \o ascending(ids \ {m})

reversed(seq) == [i \in 1..Len(seq) |-> seq[Len(seq) + 1 - i]]

\* the entries of a set of index entries in the order of the secondary
\* database: by key, equal keys by id
RECURSIVE by_key(_)
by_key(entries) ==
    IF entries = {} THEN <<>>
    ELSE LET m == CHOOSE x \in entries : \A y \in entries :
                      \/ x[2] < y[2]
                      \/ x[2] = y[2] /\ x[3][2] <= y[3][2]
         IN <<m>> \o by_key(entries \ {m})

\* the ids an index where clause yields: the entries of its index with
\* lower <= key <= upper in the direction of the clause, an entry whose key
\* equals the key before it being left out under skip_duplicates
index_scan(db, wc) ==
    LET found == {e \in db.secondary : /\ e[1] = wc.index.id
                                       /\ wc.lower <= e[2] /\ e[2] <= wc.upper}
        directed == IF wc.sort = "Ascending" THEN by_key(found)
                    ELSE reversed(by_key(found))
        kept == ascending({i \in 1..Len(directed) :
                             \/ ~wc.skip_duplicates
                             \/ i = 1
                             \/ directed[i - 1][2] # directed[i][2]})
    IN [i \in 1..Len(kept) |-> directed[kept[i]][3][2]]

\* the ids a where clause yields; an id where clause yields the stored
\* records of the collection with lower <= id <= upper, in the direction of
\* the clause
scan(db, wc) ==
    IF wc.kind = "Index" THEN index_scan(db, wc)
    ELSE
    LET found == {o \in LinkOids : /\ db.primary[oid_to_bytes(o, id)] # None
                                    /\ wc.lower <= o /\ o <= wc.upper}
    IN IF wc.sort = "Ascending" THEN ascending(found)
       ELSE reversed(ascending(found))

\* the where clauses in declared order, an id yielded by an earlier
\* clause being skipped
RECURSIVE scan_all(_, _, _)
scan_all(db, where_clauses, seen) ==
    IF where_clauses = <<>> THEN <<>>
    ELSE LET ids == SelectSeq(scan(db, Head(where_clauses)),
                              LAMBDA o : o \notin seen)
         IN ids \o scan_all(db, Tail(where_clauses),
                             seen \cup {ids[i] : i \in 1..Len(ids)})

\* Query::find_while with a callback that always continues: the ids visited
\* after offset ids are skipped and until limit ids are taken
find_while(db, q) ==
    LET ids == scan_all(db, q.where_clauses, {})
        end == IF q.offset + q.limit > Len(ids) THEN Len(ids)
               ELSE q.offset + q.limit
    IN IF q.offset >= Len(ids) THEN <<>> ELSE SubSeq(ids, q.offset + 1, end)

InitQuery ==
    /\ indexes = <<plain(1, "a")>>
    /\ primary = [k \in PKeys |-> None]
    /\ secondary = {}
    /\ links = {}
    /\ change_set = NoChangeSet
    /\ oid_counter = 0
    /\ last = [op |-> "new"]
    /\ issued = NoId
    /\ txn = OpenTxn(EmptyDb(PKeys))
    /\ threads = [t \in Threads |-> IdleThread]
    /\ qb = None
    /\ query = None
    /\ record = None
    /\ errors = NoErrors
    /\ calls = NoCalls

QueryFrame == UNCHANGED <<indexes, primary, secondary, links, change_set,
                          oid_counter, issued, txn, threads,
                          record, errors>>

\* isar_qb_create: collection.new_query_builder(), the query built before
\* being freed
QbCreate ==
    /\ qb' = new_query_builder
    /\ query' = None
    /\ last' = [op |-> "qb_create"]
    /\ calls' = NoCalls
    /\ QueryFrame

\* isar_qb_add_id_where_clause
QbAddIdWhereClause(start, end) ==
    /\ qb # None
    /\ Len(qb.where_clauses.v) < MaxClauses
    /\ qb' = add_id_where_clause(qb, start, end)
    /\ last' = [op |-> "add_id_where_clause",
                args |-> [start |-> start, end |-> end], res |-> "Ok"]
    /\ UNCHANGED query
    /\ calls' = [added |-> calls.added + 1,
                 nonempty |-> calls.nonempty + 1]
    /\ QueryFrame

\* isar_qb_set_offset_limit
QbSetOffsetLimit(offset, limit) ==
    /\ qb # None
    /\ qb' = set_limit(set_offset(qb, offset), limit)
    /\ last' = [op |-> "set_offset_limit"]
    /\ UNCHANGED query
    /\ UNCHANGED calls
    /\ QueryFrame

\* a build that refuses an offset above the limit
QbBuildChecked ==
    /\ qb # None
    /\ qb' = None
    /\ IF qb.offset > qb.limit
       THEN query' = None /\ last' = [op |-> "build", res |-> "IllegalArg"]
       ELSE query' = build(qb) /\ last' = [op |-> "build", res |-> "Ok"]
    /\ UNCHANGED calls
    /\ QueryFrame

\* isar_qb_build: the builder is consumed, the query is returned
QbBuild ==
    /\ qb # None
    /\ qb' = None
    /\ query' = build(qb)
    /\ last' = [op |-> "build", res |-> "Ok"]
    /\ UNCHANGED calls
    /\ QueryFrame

\* the query run over the collection, as clear and export_json run it
FindWhile ==
    /\ query # None
    /\ last' = [op |-> "find", res |-> find_while(Db, query)]
    /\ UNCHANGED <<qb, query>>
    /\ UNCHANGED calls
    /\ QueryFrame

NextQuery ==
    \/ \E object \in LinkObjects : Put(object)
    \/ \E oid \in LinkOids : Delete(oid)
    \/ QbCreate
    \/ \E start \in {I64_MIN, I64_MAX}, end \in {I64_MIN, I64_MAX} :
          QbAddIdWhereClause(start, end)
    \/ \E offset \in Counts, limit \in Counts : QbSetOffsetLimit(offset, limit)
    \/ QbBuild
    \/ FindWhile

SpecQuery == InitQuery /\ [][NextQuery]_vars

(* ------------------------------------------------------------------ *)
(* Data types and the sort list of the query builder                    *)
(* ------------------------------------------------------------------ *)

\* enum DataType
DataType == {"Byte", "Int", "Float", "Long", "Double", "String",
             "ByteList", "IntList", "FloatList", "LongList", "DoubleList",
             "StringList"}

\* DataType::get_element_type
get_element_type(data_type) ==
    CASE data_type = "ByteList" -> "Byte"
      [] data_type = "IntList" -> "Int"
      [] data_type = "FloatList" -> "Float"
      [] data_type = "LongList" -> "Long"
      [] data_type = "DoubleList" -> "Double"
      [] data_type = "StringList" -> "String"
      [] OTHER -> "None"

\* DataType::is_static
is_static(data_type) == data_type \in {"Int", "Long", "Float", "Double", "Byte"}

\* DataType::is_scalar
is_scalar(data_type) == get_element_type(data_type) = "None"

\* the properties of the collection, one of each data type
Properties == [data_type : DataType]

Sorts == {"Ascending", "Descending"}

\* QueryBuilder::add_sort
add_sort(b, property, sort) ==
    IF is_scalar(property.data_type)
    THEN [err |-> "Ok", qb |-> [b EXCEPT !.sort = Append(@, <<property, sort>>)]]
    ELSE [err |-> "IllegalArg", qb |-> b]

\* isar_qb_add_sort_by
QbAddSort(property, sort) ==
    /\ qb # None
    /\ Len(qb.sort) < MaxSorts
    /\ LET r == add_sort(qb, property, sort)
       IN /\ qb' = r.qb
          /\ last' = [op |-> "add_sort", property |-> property, sort |-> sort,
                      res |-> r.err]
    /\ UNCHANGED query
    /\ UNCHANGED calls
    /\ QueryFrame

NextSort ==
    \/ QbCreate
    \/ \E property \in Properties, sort \in Sorts : QbAddSort(property, sort)
    \/ QbBuild

SpecSort == InitQuery /\ [][NextSort]_vars

(* ------------------------------------------------------------------ *)
(* Properties                                                           *)
(* ------------------------------------------------------------------ *)

pk(oid) == oid_to_bytes(oid, id)

\* the index entries computed from the records of the primary database
derived(pri) ==
    {index_entry(indexes[i], oid_from_bytes(k)[1], pri[k]) :
        i \in 1..Len(indexes), k \in {x \in PKeys : pri[x] # None}}

\* the entries of the secondary database pointing at an oid
pointing(sec, oid) == {e \in sec : e[3] = pk(oid)}

PutOk == last.op = "put" /\ last.res = "Ok"

\* C1: right after a successful put(o), get(o.id) returns Some object with
\* exactly o's bytes, whatever was put or deleted before.
C1_PutThenGet ==
    PutOk => get(Db, read_long(last.object)) = last.object

C1_Witness ==
    /\ PutOk
    /\ get(Db, read_long(last.object)) = last.object
    /\ \E k \in PKeys : k # pk(read_long(last.object)) /\ primary[k] # None

\* C2: after any sequence of put, delete and clear (failing puts included)
\* the secondary index entries are exactly the entries derived from the
\* objects in the primary store.
C2_IndexMatchesPrimary == secondary = derived(primary)

\* C3: a put that returns InvalidObject leaves the primary store, the index
\* entries and the link entries as they were before the call.
C3_FailedPutChangesNothing ==
    [][(last'.op = "put" /\ last'.res = "InvalidObject")
         => (primary' = primary /\ secondary' = secondary /\ links' = links)]_vars

\* C4: put(o1) followed by put(o2) with the same id leaves the id's primary
\* entry holding o2, every index holding o2's entry and no entry derived
\* from o1 only; the overwriting put leaves the primary and index entries
\* of other ids unchanged.
C4_PutExisting ==
    [][(/\ PutOk
        /\ last'.op = "put" /\ last'.res = "Ok"
        /\ read_long(last'.object) = read_long(last.object))
       => LET o1 == last.object
              o2 == last'.object
              oid == read_long(o2)
          IN /\ primary'[pk(oid)] = o2
             /\ \A i \in 1..Len(indexes) :
                  /\ index_entry(indexes[i], oid, o2) \in secondary'
                  /\ index_entry(indexes[i], oid, o1) \in secondary'
                       => key_of(indexes[i], o1) = key_of(indexes[i], o2)
             /\ \A k \in PKeys \ {pk(oid)} : primary'[k] = primary[k]
             /\ secondary' \ pointing(secondary', oid)
                  = secondary \ pointing(secondary, oid)]_vars

C4_Witness ==
    /\ PutOk
    /\ last.existed
    /\ Len(indexes) = 2
    /\ \E k \in PKeys : k # pk(read_long(last.object)) /\ primary[k] # None

\* C5: after put(o); delete(o.id), get(o.id) returns none, no index holds
\* an entry pointing at o.id, and the other stored objects and their index
\* entries are as they were.
C5_PutThenDelete ==
    [][(/\ PutOk
        /\ last'.op = "delete"
        /\ last'.oid = read_long(last.object))
       => LET oid == read_long(last.object)
          IN /\ get([Db EXCEPT !.primary = primary'], oid) = None
             /\ pointing(secondary', oid) = {}
             /\ \A k \in PKeys \ {pk(oid)} : primary'[k] = primary[k]
             /\ secondary' \ pointing(secondary', oid)
                  = secondary \ pointing(secondary, oid)]_vars

\* C6: after a successful put(o) every index holds (key_of(o), primary key
\* of o.id); when the collection was empty before (no record, no index
\* entry), every index holds exactly that one pair.
C6_PutCreatesIndex ==
    [][(last'.op = "put" /\ last'.res = "Ok")
       => LET o == last'.object
              own == {index_entry(indexes[i], read_long(o), o) :
                        i \in 1..Len(indexes)}
          IN /\ own \subseteq secondary'
             /\ (stored_keys(Db) = {} /\ secondary = {}) => secondary' = own]_vars

C6_Witness ==
    /\ PutOk
    /\ stored_keys(Db) = {pk(read_long(last.object))}
    /\ secondary = {index_entry(indexes[i], read_long(last.object), last.object) :
                       i \in 1..Len(indexes)}
    /\ Len(indexes) = 2

\* C7 as claimed: a put over an existing id deletes the old object with its
\* link entries, so no link entry mentioning the id remains after the put.
C7_PutDeletesLinks ==
    [][(last'.op = "put" /\ last'.existed)
       => mentioning(links', read_long(last'.object)) = {}]_vars

\* C7 amended: a put over an existing id removes the old object's primary
\* and index entries but keeps every link entry recorded under that id.
C7_PutKeepsLinks ==
    [][(last'.op = "put" /\ last'.existed /\ last' # last)
       => LET oid == read_long(last'.object)
              old == primary[pk(oid)]
          IN /\ mentioning(links', oid) = mentioning(links, oid)
             /\ \A i \in 1..Len(indexes) :
                  index_entry(indexes[i], oid, old) \in secondary'
                    => /\ last'.res = "Ok"
                       /\ key_of(indexes[i], old) = key_of(indexes[i], last'.object)]_vars

C7_Witness ==
    /\ PutOk
    /\ last.existed
    /\ mentioning(links, read_long(last.object)) # {}

\* C8: delete(id) returns true iff a record with that id was stored before
\* the call, and after a delete returning true no link entry, forward or
\* backward, mentions the id.
C8_DeleteRemovesLinks ==
    [][(last'.op = "delete" /\ last' # last)
       => /\ last'.res = (get(Db, last'.oid) # None)
          /\ last'.res => mentioning(links', last'.oid) = {}]_vars

C8_Witness ==
    /\ last.op = "delete" /\ last.res /\ last.linked
    /\ links # {}
    /\ mentioning(links, last.oid) = {}

\* C9: a successful put of id w sets oid_counter to max(counter before, w),
\* and oid_counter never decreases over put, delete, clear, auto_increment.
C9_CounterMax ==
    [][/\ (last'.op = "put" /\ last'.res = "Ok" /\ last' # last)
          => oid_counter' = Max(oid_counter, read_long(last'.object))
       /\ oid_counter' >= oid_counter]_vars

\* C10: every successful auto_increment returns oid_counter + 1, which is
\* greater than every id handed out or successfully put before, and is not
\* the id of a stored object.
C10_AutoIncrementMonotonic ==
    [][(last'.op = "auto_increment" /\ last'.res = "Ok" /\ last' # last)
       => /\ last'.value = oid_counter + 1
          /\ last'.value > issued
          /\ last'.value \in LinkOids => get(Db, last'.value) = None]_vars

\* C11: with oid_counter at the maximum id, auto_increment returns
\* AutoIncrementOverflow, not an id produced by wrap-around, and leaves
\* oid_counter unchanged.
C11_SaturatedOverflow ==
    [][(oid_counter = MAX_OID /\ last'.op = "auto_increment" /\ last' # last)
       => /\ last'.res = "AutoIncrementOverflow"
          /\ oid_counter' = oid_counter]_vars

\* C12: a successful put(o) on a collection with a replace index removes
\* only records that owned o's key in that index: every record stored
\* before under another id whose key in each replace index differs from
\* o's key is still stored after the put.
C12_ReplaceKeepsOtherKeys ==
    [][(last'.op = "put" /\ last'.res = "Ok" /\ last' # last)
       => LET o == last'.object
          IN \A k \in stored_keys(Db) \ {pk(read_long(o))} :
                (\A i \in 1..Len(indexes) :
                    does_replace(indexes[i])
                      => key_of(indexes[i], primary[k]) # key_of(indexes[i], o))
                => primary'[k] = primary[k]]_vars

\* C13: clear returns the number of records stored in the collection before
\* the call; afterwards the collection has no primary entry, no index entry
\* derived from one of those records and no link entry mentioning one of
\* them, and the records of the other collection are as before.
C13_Clear ==
    [][(last'.op = "clear")
       => /\ last'.res = Cardinality(stored_keys(Db))
          /\ \A k \in PKeys : primary'[k] = None
          /\ derived(primary) \cap secondary' = {}
          /\ \A k \in stored_keys(Db) :
                mentioning(links', oid_from_bytes(k)[1]) = {}
          /\ \A oid \in OtherOids :
                get_other([Db EXCEPT !.primary = primary'], oid) = get_other(Db, oid)]_vars

C13_Witness ==
    /\ last.op = "clear" /\ last.res = Cardinality(PKeys)
    /\ \A k \in PKeys : primary[k] = None
    /\ \A k \in OtherKeys : primary[k] # None

\* C14: put, delete and clear on the collection never change what get(id)
\* returns in the second collection, also for the same numeric id.
C14_DisjointKeyRanges ==
    [][(last'.op \in {"put", "delete", "clear"})
       => \A oid \in OtherOids :
             get_other([Db EXCEPT !.primary = primary'], oid) = get_other(Db, oid)]_vars

C14_Witness ==
    /\ PutOk
    /\ read_long(last.object) \in OtherOids
    /\ get_other(Db, read_long(last.object)) # None
    /\ get(Db, read_long(last.object)) = last.object
    /\ get_other(Db, read_long(last.object)) # last.object

\* the watchers of a kind on the collection
QueryWatchers == {w \in Watchers : w.kind = "query"}
CollectionWatchers == {w \in Watchers : w.kind = "collection"}

\* the versions (collection, oid, object) of the records whose primary
\* entry differs between the begin of the transaction and now
changed_versions ==
    UNION {{<<k[1], k[2], v>> : v \in {txn.begin.primary[k], primary[k]} \ {None}} :
              k \in {x \in DOMAIN primary : txn.begin.primary[x] # primary[x]}}

\* C15: on commit a query-watcher fires iff at least one record changed in
\* the transaction satisfies the query's id range and filter, and at most
\* once: it fires once when a record that differs from its state at begin
\* satisfies the query, and never without a registered matching change.
C15_QueryWatcherFires ==
    [][(last'.op = "commit")
       => \A w \in QueryWatchers :
            /\ last'.fired[w] <= 1
            /\ (\E c \in changed_versions : matches(w, c[1], c[2], c[3]))
                  => last'.fired[w] = 1
            /\ last'.fired[w] = 1
                  => \E c \in change_set.changes : matches(w, c[1], c[2], c[3])]_vars

C15_Witness ==
    /\ last.op = "commit"
    /\ last.fired[q1] = 1
    /\ last.fired[q2] = 0
    /\ \E k \in PKeys : primary[k] # None /\ primary[k].b = 1

\* C16: on commit a collection-watcher fires exactly once when the change
\* set holds at least one put or delete on its collection, however many
\* records were touched, and does not fire when the transaction touched
\* only the other collection: a call on one collection registers changes
\* of that collection only.
C16_CollectionWatcherFires ==
    [][/\ (last'.op = "commit")
          => \A w \in CollectionWatchers :
               /\ (\E c \in changed_versions : c[1] = w.col) => last'.fired[w] = 1
               /\ last'.fired[w] =
                    IF \E c \in change_set.changes : c[1] = w.col THEN 1 ELSE 0
       /\ (last'.op \in {"put", "delete", "clear"})
          => \A c \in change_set'.changes \ change_set.changes : c[1] = id
       /\ (last'.op = "put_other")
          => \A c \in change_set'.changes \ change_set.changes : c[1] = other_id]_vars

C16_Witness ==
    /\ last.op = "commit"
    /\ Cardinality({c[2] : c \in {x \in last.changes : x[1] = id}}) >= 2
    /\ \A c \in last.changes : c[1] = id
    /\ last.fired[watch_collection(id)] = 1
    /\ last.fired[watch_collection(other_id)] = 0

\* the calls of an open transaction and the calls that end it without commit
NoCommitOps == {"begin_txn", "put", "delete", "clear", "put_other", "abort"}

\* C17: watchers are notified only by commit: no call other than commit
\* invokes a callback, an abort restores the databases and discards the
\* change set, a new transaction starts with an empty change set and a
\* commit fires a watcher only for a change of the committed transaction.
C17_NotifiedOnlyByCommit ==
    [][/\ last'.op \in NoCommitOps => "fired" \notin DOMAIN last'
       /\ last'.op = "abort"
            => /\ change_set' = NoChangeSet
               /\ primary' = txn.begin.primary
               /\ secondary' = txn.begin.secondary
       /\ ~txn'.open => change_set'.changes = {}
       /\ last'.op = "begin_txn" => change_set' = SomeChangeSet({})
       /\ last'.op = "commit"
            => \A w \in Watchers :
                  last'.fired[w] > 0
                    => \E c \in change_set.changes : matches(w, c[1], c[2], c[3])]_vars

C17_Witness ==
    /\ last.op = "abort"
    /\ \E c \in last.dropped : matches(q1, c[1], c[2], c[3])
    /\ change_set = NoChangeSet
    /\ ~txn.open

\* C18: for every interleaving of threads holding transactions, no two
\* calls of auto_increment return the same id and no counter update is
\* lost: every successful call returns an id above all ids returned before
\* and raises oid_counter by one.
C18_NoDuplicateIds ==
    [][(last'.op = "auto_increment" /\ last'.res = "Ok")
       => /\ last'.value > issued
          /\ oid_counter' = oid_counter + 1]_vars

\* the query of a builder to which no where clause was added
query_all == build(new_query_builder)

\* the ids of the stored records of the collection
stored_oids(db) == {oid_from_bytes(k)[1] : k \in stored_keys(db)}

\* count of query_all over the databases after the step
count_after == Len(find_while([Db EXCEPT !.primary = primary'], query_all))

\* C19: a query built with no where clause is the full id range
\* [i64::MIN, i64::MAX] ascending and visits every stored record exactly
\* once in ascending id order; its count is the number of distinct ids
\* written and not deleted: only a successful put of a new id raises it, by
\* one, and only a delete of a stored id lowers it, by one.
C19_QueryAll ==
    [][/\ (last'.op = "build" /\ qb # None /\ ~qb.where_clauses.some)
          => query'.where_clauses = <<IdWhereClause(I64_MIN, I64_MAX, "Ascending")>>
       /\ (last'.op = "find" /\ query = query_all)
          => /\ last'.res = ascending(stored_oids(Db))
             /\ Len(last'.res) = Cardinality(stored_oids(Db))
       /\ (last'.op = "put")
          => count_after = Len(find_while(Db, query_all))
                + (IF last'.res = "Ok" /\ ~last'.existed THEN 1 ELSE 0)
       /\ (last'.op = "delete")
          => count_after = Len(find_while(Db, query_all))
                - (IF last'.res THEN 1 ELSE 0)]_vars

Primitives == {"Byte", "Int", "Float", "Long", "Double"}

\* the list data types
ListTypes == {"ByteList", "IntList", "FloatList", "LongList", "DoubleList",
              "StringList"}

\* C21 as claimed: add_sort accepts a property iff its data type is one of
\* Byte, Int, Float, Long, Double; for String and the list types it returns
\* IllegalArg and leaves the sort list unchanged.
C21_SortOnlyPrimitives ==
    [][(last'.op = "add_sort" /\ qb # None)
       => IF last'.property.data_type \in Primitives
          THEN /\ last'.res = "Ok"
               /\ qb'.sort = Append(qb.sort, <<last'.property, last'.sort>>)
          ELSE /\ last'.res = "IllegalArg"
               /\ qb'.sort = qb.sort]_vars

\* C21 amended: add_sort accepts a property iff its data type is not a list
\* type, String included, and appends (property, sort) to the sort list;
\* for a list type it returns IllegalArg and leaves the sort list unchanged.
C21_SortNonLists ==
    [][(last'.op = "add_sort" /\ qb # None)
       => IF last'.property.data_type \notin ListTypes
          THEN /\ last'.res = "Ok"
               /\ qb'.sort = Append(qb.sort, <<last'.property, last'.sort>>)
          ELSE /\ last'.res = "IllegalArg"
               /\ qb'.sort = qb.sort]_vars

C21_Witness ==
    /\ last.op = "add_sort"
    /\ last.property.data_type = "String"
    /\ last.res = "Ok"
    /\ qb # None
    /\ Len(qb.sort) = 2
    /\ qb.sort[2] = <<last.property, last.sort>>

(* ------------------------------------------------------------------ *)
(* Filters: a tree of conditions evaluated against a record and its id  *)
(* ------------------------------------------------------------------ *)

\* Option::Some
Some(v) == [none |-> FALSE, v |-> v]

\* f32 and f64 values: NaN or a number
NaN == [nan |-> TRUE, v |-> 0]

Float(v) == [nan |-> FALSE, v |-> v]

\* f64::is_nan
is_nan(f) == f.nan

\* the comparison a <= b of floats: false as soon as one side is NaN
float_le(a, b) == ~a.nan /\ ~b.nan /\ a.v <= b.v

\* the code of a character; the upper case letters come first
char_code(c) ==
    CASE c = "A" -> 65
      [] c = "B" -> 66
      [] c = "a" -> 97
      [] c = "b" -> 98

\* char::to_lowercase
char_to_lowercase(c) ==
    CASE c = "A" -> "a"
      [] c = "B" -> "b"
      [] OTHER -> c

\* str::to_lowercase
to_lowercase(s) == [i \in DOMAIN s |-> char_to_lowercase(s[i])]

RECURSIVE str_le(_, _)
\* the comparison a <= b of strings, byte by byte
str_le(a, b) ==
    IF a = <<>> THEN TRUE
    ELSE IF b = <<>> THEN FALSE
    ELSE IF char_code(Head(a)) # char_code(Head(b))
         THEN char_code(Head(a)) < char_code(Head(b))
    ELSE str_le(Tail(a), Tail(b))

\* str::starts_with
starts_with(s, p) == Len(p) <= Len(s) /\ SubSeq(s, 1, Len(p)) = p

\* str::ends_with
ends_with(s, p) ==
    Len(p) <= Len(s) /\ SubSeq(s, Len(s) - Len(p) + 1, Len(s)) = p

RECURSIVE fast_wild_match(_, _)
\* fast_wild_match: a glob where ? is any one character and * any run
fast_wild_match(s, p) ==
    IF p = <<>> THEN s = <<>>
    ELSE IF Head(p) = "*"
         THEN \/ fast_wild_match(s, Tail(p))
              \/ s # <<>> /\ fast_wild_match(Tail(s), p)
    ELSE /\ s # <<>>
         /\ Head(p) = "?" \/ Head(p) = Head(s)
         /\ fast_wild_match(Tail(s), Tail(p))

\* Result<bool>
Ok(b) == [err |-> "Ok", v |-> b]

VersionError == [err |-> "VersionError"]

\* the longest string of a record or of a filter
MaxStr == 2

\* the longest list of a record
MaxList == 2

\* most filters in an And or an Or
MaxFilters == 2

SeqsUpTo(S, n) == UNION {[1..k -> S] : k \in 0..n}

Chars == {"a", "A", "b"}

Strings == SeqsUpTo(Chars, MaxStr)

\* the strings given to the string filters
FilterStrings == SeqsUpTo(Chars, MaxStr - 1)

OptStrings == {None} \cup {Some(s) : s \in Strings}

\* the strings inside string lists, each of them nullable
StringElements == {None, Some(<<"a">>), Some(<<"B">>)}

Bytes == 0..2

Ints == -1..1

Floats == {NaN, Float(-1), Float(0), Float(1)}

\* the values a property of a data type takes in the records evaluated
ValuesOf(data_type) ==
    CASE data_type = "Byte" -> Bytes
      [] data_type \in {"Int", "Long"} -> Ints
      [] data_type \in {"Float", "Double"} -> Floats
      [] data_type = "String" -> OptStrings
      [] data_type = "ByteList" ->
            {None} \cup {Some(l) : l \in SeqsUpTo(Bytes, MaxList)}
      [] data_type \in {"IntList", "LongList"} ->
            {None} \cup {Some(l) : l \in SeqsUpTo(Ints, MaxList)}
      [] data_type \in {"FloatList", "DoubleList"} ->
            {None} \cup {Some(l) : l \in SeqsUpTo(Floats, MaxList)}
      [] data_type = "StringList" ->
            {None} \cup {Some(l) : l \in SeqsUpTo(StringElements, MaxList)}

\* an object with every number 0 and every string and list null
DefaultObject ==
    [data_type \in DataType |->
        CASE data_type \in {"Byte", "Int", "Long"} -> 0
          [] data_type \in {"Float", "Double"} -> Float(0)
          [] OTHER -> None]

\* IsarObject::read_byte, read_int, ..., read_string_list
read(object, property) == object[property.data_type]

IllegalArg == [err |-> "IllegalArg"]

\* Filter::id
IdBetween(lower, upper) ==
    [kind |-> "IdBetween", lower |-> lower, upper |-> upper]

\* primitive_create!: a Between filter over a property of the data type, an
\* Any...Between filter over a property of its list type
primitive_create(data_type, property, lower, upper) ==
    IF property.data_type = data_type
    THEN [err |-> "Ok",
          v |-> [kind |-> "Between", any |-> FALSE, property |-> property,
                 lower |-> lower, upper |-> upper]]
    ELSE IF get_element_type(property.data_type) = data_type
    THEN [err |-> "Ok",
          v |-> [kind |-> "Between", any |-> TRUE, property |-> property,
                 lower |-> lower, upper |-> upper]]
    ELSE IllegalArg

\* Option::map(|s| s.to_lowercase())
map_to_lowercase(o) == IF o.none THEN None ELSE Some(to_lowercase(o.v))

\* a Filter::string that keeps the case of its bounds
string_verbatim(property, lower, upper, case_sensitive) ==
    IF property.data_type \in {"String", "StringList"}
    THEN [err |-> "Ok",
          v |-> [kind |-> "StringBetween",
                 any |-> property.data_type = "StringList",
                 property |-> property, lower |-> lower, upper |-> upper,
                 case_sensitive |-> case_sensitive]]
    ELSE IllegalArg

\* Filter::string
string(property, lower, upper, case_sensitive) ==
    LET lo == IF case_sensitive THEN lower ELSE map_to_lowercase(lower)
        up == IF case_sensitive THEN upper ELSE map_to_lowercase(upper)
    IN IF property.data_type \in {"String", "StringList"}
       THEN [err |-> "Ok",
             v |-> [kind |-> "StringBetween",
                    any |-> property.data_type = "StringList",
                    property |-> property, lower |-> lo, upper |-> up,
                    case_sensitive |-> case_sensitive]]
       ELSE IllegalArg

StringFilters == {"StringStartsWith", "StringEndsWith", "StringMatches"}

\* a string filter that keeps the case of its value
string_filter_create_verbatim(name, property, value, case_sensitive) ==
    IF property.data_type \in {"String", "StringList"}
    THEN [err |-> "Ok",
          v |-> [kind |-> name,
                 any |-> property.data_type = "StringList",
                 property |-> property, value |-> value,
                 case_sensitive |-> case_sensitive]]
    ELSE IllegalArg

\* string_filter_create!, behind Filter::string_starts_with,
\* string_ends_with and string_matches
string_filter_create(name, property, value, case_sensitive) ==
    LET val == IF case_sensitive THEN value ELSE to_lowercase(value)
    IN IF property.data_type \in {"String", "StringList"}
       THEN [err |-> "Ok",
             v |-> [kind |-> name,
                    any |-> property.data_type = "StringList",
                    property |-> property, value |-> val,
                    case_sensitive |-> case_sensitive]]
       ELSE IllegalArg

\* Filter::and
And(filters) == [kind |-> "And", filters |-> filters]

\* Filter::or
Or(filters) == [kind |-> "Or", filters |-> filters]

\* Filter::not
Not(filter) == [kind |-> "Not", filter |-> filter]

\* Filter::stat
Static(value) == [kind |-> "Static", value |-> value]

\* Filter::link, over the one link of the collection
Link(filter) == [kind |-> "Link", filter |-> filter]

\* IdBetweenCond::evaluate
id_between(filter, oid) == filter.lower <= oid /\ filter.upper >= oid

\* a Between that excludes its upper bound
primitive_filter_between_exclusive(filter, val) ==
    filter.lower <= val /\ filter.upper > val

\* primitive_filter_between!: ByteBetween, IntBetween, LongBetween
primitive_filter_between(filter, val) ==
    filter.lower <= val /\ filter.upper >= val

\* a float Between that compares NaN like any number
float_filter_between_plain(filter, val) ==
    float_le(filter.lower, val) /\ float_le(val, filter.upper)

\* float_filter_between! (eval): FloatBetween, DoubleBetween
float_filter_between(filter, val) ==
    IF is_nan(filter.upper) THEN is_nan(filter.lower) /\ is_nan(val)
    ELSE IF is_nan(filter.lower)
         THEN float_le(val, filter.upper) \/ is_nan(val)
    ELSE float_le(filter.lower, val) /\ float_le(val, filter.upper)

\* the scalar Between of a data type
between(filter, val) ==
    IF filter.property.data_type \in {"Float", "Double", "FloatList", "DoubleList"}
    THEN float_filter_between(filter, val)
    ELSE primitive_filter_between(filter, val)

\* a list Between that asks every element to satisfy it
filter_between_list_all(filter, vals) ==
    IF vals.none THEN FALSE
    ELSE \A i \in DOMAIN vals.v : between(filter, vals.v[i])

\* primitive_filter_between_list!, float_filter_between_list!
filter_between_list(filter, vals) ==
    IF vals.none THEN FALSE
    ELSE \E i \in DOMAIN vals.v : between(filter, vals.v[i])

\* a string Between that never matches a null string
string_between_not_null(value, lower, upper, case_sensitive) ==
    /\ ~value.none
    /\ LET obj_str == IF case_sensitive THEN value.v ELSE to_lowercase(value.v)
       IN /\ ~lower.none => str_le(lower.v, obj_str)
          /\ ~upper.none
          /\ str_le(obj_str, upper.v)

\* string_between
string_between(value, lower, upper, case_sensitive) ==
    IF ~value.none
    THEN LET obj_str == IF case_sensitive THEN value.v
                        ELSE to_lowercase(value.v)
             above == IF ~lower.none THEN str_le(lower.v, obj_str)
                      ELSE TRUE
         IN above /\ (IF ~upper.none THEN str_le(obj_str, upper.v)
                      ELSE FALSE)
    ELSE lower.none

\* string_filter! (eval)
string_filter(filter, value) ==
    IF ~value.none
    THEN LET other_str == IF filter.case_sensitive THEN value.v
                          ELSE to_lowercase(value.v)
         IN CASE filter.kind = "StringStartsWith" ->
                    starts_with(other_str, filter.value)
              [] filter.kind = "StringEndsWith" ->
                    ends_with(other_str, filter.value)
              [] filter.kind = "StringMatches" ->
                    fast_wild_match(other_str, filter.value)
    ELSE FALSE

\* IsarCursors: the link database the cursors read
Cursors(link_db) == Some(link_db)

RECURSIVE evaluate(_, _, _, _)
RECURSIVE evaluate_and(_, _, _, _)
RECURSIVE evaluate_or(_, _, _, _)
RECURSIVE link_iter(_, _)

\* an And that evaluates its first filter only
evaluate_and_first(filters, oid, object, cursors) ==
    IF filters = <<>> THEN Ok(TRUE)
    ELSE evaluate(Head(filters), oid, object, cursors)

\* AndCond::evaluate: false at the first filter that rejects, the error of
\* the first filter that fails
evaluate_and(filters, oid, object, cursors) ==
    IF filters = <<>> THEN Ok(TRUE)
    ELSE LET r == evaluate(Head(filters), oid, object, cursors)
         IN IF r.err # "Ok" THEN r
            ELSE IF ~r.v THEN Ok(FALSE)
            ELSE evaluate_and(Tail(filters), oid, object, cursors)

\* an Or that evaluates every filter before it decides
evaluate_or_eager(filters, oid, object, cursors) ==
    LET rs == [i \in DOMAIN filters |->
                 evaluate(filters[i], oid, object, cursors)]
    IN IF \E i \in DOMAIN rs : rs[i].err # "Ok"
       THEN rs[CHOOSE i \in DOMAIN rs : rs[i].err # "Ok"]
       ELSE Ok(\E i \in DOMAIN rs : rs[i].v)

\* OrCond::evaluate: true at the first filter that accepts
evaluate_or(filters, oid, object, cursors) ==
    IF filters = <<>> THEN Ok(FALSE)
    ELSE LET r == evaluate(Head(filters), oid, object, cursors)
         IN IF r.err # "Ok" THEN r
            ELSE IF r.v THEN Ok(TRUE)
            ELSE evaluate_or(Tail(filters), oid, object, cursors)

\* IsarLink::iter with the callback of LinkCond::evaluate: the linked
\* records in turn, until the callback fails or returns false; true when
\* it never returned false
link_iter(filter, linked) ==
    IF linked = <<>> THEN Ok(TRUE)
    ELSE LET r == evaluate(filter, Head(linked).id, Head(linked).object, None)
         IN IF r.err # "Ok" THEN r
            ELSE IF r.v THEN Ok(FALSE)
            ELSE link_iter(filter, Tail(linked))

\* LinkCond::evaluate
evaluate_link(filter, oid, cursors) ==
    IF ~cursors.none
    THEN LET none_matches == link_iter(filter.filter, cursors.v[oid])
         IN IF none_matches.err # "Ok" THEN none_matches
            ELSE Ok(~none_matches.v)
    ELSE VersionError

\* Condition::evaluate, dispatched over FilterCond
evaluate(filter, oid, object, cursors) ==
    CASE filter.kind = "IdBetween" -> Ok(id_between(filter, oid))
      [] filter.kind = "Between" ->
            IF filter.any
            THEN Ok(filter_between_list(filter, read(object, filter.property)))
            ELSE Ok(between(filter, read(object, filter.property)))
      [] filter.kind = "StringBetween" ->
            LET value == read(object, filter.property)
            IN IF filter.any
               THEN Ok(/\ ~value.none
                       /\ \E i \in DOMAIN value.v :
                              string_between(value.v[i], filter.lower,
                                             filter.upper, filter.case_sensitive))
               ELSE Ok(string_between(value, filter.lower, filter.upper,
                                      filter.case_sensitive))
      [] filter.kind \in StringFilters ->
            LET value == read(object, filter.property)
            IN IF filter.any
               THEN Ok(/\ ~value.none
                       /\ \E i \in DOMAIN value.v :
                              string_filter(filter, value.v[i]))
               ELSE Ok(string_filter(filter, value))
      [] filter.kind = "And" ->
            evaluate_and(filter.filters, oid, object, cursors)
      [] filter.kind = "Or" ->
            evaluate_or(filter.filters, oid, object, cursors)
      [] filter.kind = "Not" ->
            LET r == evaluate(filter.filter, oid, object, cursors)
            IN IF r.err # "Ok" THEN r ELSE Ok(~r.v)
      [] filter.kind = "Static" -> Ok(filter.value)
      [] filter.kind = "Link" -> evaluate_link(filter, oid, cursors)

\* the link database in which no record is linked to another
NoLinks == [oid \in Ints |-> <<>>]

\* the records with one property other than the default, or another id
FilterRecords ==
    {[id |-> oid, object |-> DefaultObject, links |-> NoLinks] : oid \in Ints}
    \cup UNION {{[id |-> 0, object |-> [DefaultObject EXCEPT ![data_type] = v],
                  links |-> NoLinks] : v \in ValuesOf(data_type)} :
                data_type \in DataType \ {"String", "StringList"}}

InitFilter ==
    /\ indexes = <<plain(1, "a")>>
    /\ primary = [k \in PKeys |-> None]
    /\ secondary = {}
    /\ links = {}
    /\ change_set = NoChangeSet
    /\ oid_counter = 0
    /\ last = [op |-> "new"]
    /\ issued = NoId
    /\ txn = OpenTxn(EmptyDb(PKeys))
    /\ threads = [t \in Threads |-> IdleThread]
    /\ qb = None
    /\ query = None
    /\ record \in FilterRecords
    /\ errors = NoErrors
    /\ calls = NoCalls

FilterFrame == UNCHANGED <<indexes, primary, secondary, links, change_set,
                           oid_counter, issued, txn, threads, qb, query,
                           record, errors, calls>>

\* Filter::evaluate on the record, of a filter whose creation succeeded;
\* the record goes through the filter once
Evaluate(args, created, cursors) ==
    /\ last.op = "new"
    /\ last' = IF created.err # "Ok"
               THEN [op |-> "create", args |-> args, res |-> created]
               ELSE [op |-> "evaluate", args |-> args, filter |-> created.v,
                     cursors |-> cursors,
                     res |-> evaluate(created.v, record.id, record.object,
                                      cursors)]
    /\ FilterFrame

\* the filters under And, Or and Not: two constants, one over the id, and
\* one that needs cursors
BoolLeaves == {Static(TRUE), Static(FALSE), IdBetween(0, 0), Link(Static(TRUE))}

AndOrs ==
    {And(l) : l \in SeqsUpTo(BoolLeaves, MaxFilters)}
    \cup {Or(l) : l \in SeqsUpTo(BoolLeaves, MaxFilters)}

Trees ==
    AndOrs \cup {Not(f) : f \in BoolLeaves \cup AndOrs}
           \cup {Not(Not(f)) : f \in BoolLeaves \cup AndOrs}

EvaluateId(lower, upper) ==
    Evaluate(<<lower, upper>>, [err |-> "Ok", v |-> IdBetween(lower, upper)],
             Cursors(record.links))

EvaluateBetween(data_type, property, lower, upper) ==
    Evaluate(<<data_type, property, lower, upper>>,
             primitive_create(data_type, property, lower, upper),
             Cursors(record.links))

EvaluateTree(filter, cursors) ==
    Evaluate(<<filter>>, [err |-> "Ok", v |-> filter], cursors)

NextFilter ==
    \/ \E lower \in Ints, upper \in Ints : EvaluateId(lower, upper)
    \/ \E data_type \in Primitives, property \in Properties :
          \E lower \in ValuesOf(data_type), upper \in ValuesOf(data_type) :
             EvaluateBetween(data_type, property, lower, upper)
    \/ \E filter \in Trees, cursors \in {None, Cursors(record.links)} :
          EvaluateTree(filter, cursors)

SpecFilter == InitFilter /\ [][NextFilter]_vars

\* the evaluation that made the last result
evaluated(filter) == evaluate(filter, record.id, record.object, last.cursors)

\* C22: for filters whose evaluation does not error on the record,
\* Not(Not(F)) gives what F gives, And(filters) is the conjunction and
\* Or(filters) the disjunction of what the filters give, for lists of any
\* length: And([]) accepts the record and Or([]) rejects it.
C22_BooleanAlgebra ==
    last.op = "evaluate" =>
      LET filter == last.filter
      IN /\ (filter.kind = "Not" /\ filter.filter.kind = "Not"
             /\ evaluated(filter.filter.filter).err = "Ok")
            => last.res = evaluated(filter.filter.filter)
         /\ (filter.kind \in {"And", "Or"}
             /\ \A i \in DOMAIN filter.filters :
                   evaluated(filter.filters[i]).err = "Ok")
            => last.res =
                 IF filter.kind = "And"
                 THEN Ok(\A i \in DOMAIN filter.filters :
                            evaluated(filter.filters[i]).v)
                 ELSE Ok(\E i \in DOMAIN filter.filters :
                            evaluated(filter.filters[i]).v)
         /\ filter = And(<<>>) => last.res = Ok(TRUE)
         /\ filter = Or(<<>>) => last.res = Ok(FALSE)

C22_Witness ==
    /\ last.op = "evaluate"
    /\ last.filter = And(<<IdBetween(0, 0), Static(FALSE)>>)
    /\ record.id = 0
    /\ last.res = Ok(FALSE)

\* C24: a Float or Double Between(lo, hi) with hi NaN matches a value only
\* when lo is NaN and the value is NaN; with only lo NaN it matches the
\* values <= hi and NaN; with neither bound NaN it matches exactly
\* lo <= value <= hi, and so never NaN.
C24_FloatBetweenNaN ==
    (/\ last.op = "evaluate"
     /\ last.filter.kind = "Between"
     /\ last.filter.property.data_type \in {"Float", "Double"})
    => LET lo == last.filter.lower
           hi == last.filter.upper
           val == record.object[last.filter.property.data_type]
       IN last.res =
            Ok(IF hi.nan THEN lo.nan /\ val.nan
               ELSE IF lo.nan THEN val.nan \/ val.v <= hi.v
               ELSE ~val.nan /\ lo.v <= val.v /\ val.v <= hi.v)

C24_Witness ==
    /\ last.op = "evaluate"
    /\ last.filter.kind = "Between"
    /\ last.filter.property.data_type = "Double"
    /\ last.filter.lower = NaN
    /\ last.filter.upper = Float(0)
    /\ record.object["Double"] = NaN
    /\ last.res = Ok(TRUE)

\* C25: IdBetween(lo, hi) and Byte, Int and LongBetween(prop, lo, hi)
\* accept a record iff lo <= v <= hi for its id or property value v, both
\* ends included: nothing when lo > hi, exactly v = lo when lo = hi.
C25_BetweenInclusive ==
    (/\ last.op = "evaluate"
     /\ \/ last.filter.kind = "IdBetween"
        \/ /\ last.filter.kind = "Between"
           /\ last.filter.property.data_type \in {"Byte", "Int", "Long"})
    => LET lo == last.filter.lower
           hi == last.filter.upper
           v == IF last.filter.kind = "IdBetween" THEN record.id
                ELSE record.object[last.filter.property.data_type]
       IN /\ last.res = Ok(lo <= v /\ v <= hi)
          /\ lo > hi => last.res = Ok(FALSE)
          /\ lo = hi => last.res = Ok(v = lo)

C25_Witness ==
    /\ last.op = "evaluate"
    /\ last.filter.kind = "Between"
    /\ last.filter.property.data_type = "Long"
    /\ last.filter.lower = -1
    /\ last.filter.upper = 1
    /\ record.object["Long"] = 1
    /\ last.res = Ok(TRUE)

\* the scalar Between with the bounds of a list Between, on one element
scalar_between(filter, val) ==
    LET elem == get_element_type(filter.property.data_type)
    IN evaluate([filter EXCEPT !.any = FALSE, !.property = [data_type |-> elem]],
                record.id, [DefaultObject EXCEPT ![elem] = val], last.cursors).v

\* C26: an Any...Between(prop, lo, hi) on a list property is true iff at
\* least one element of the list satisfies the scalar Between(lo, hi) of
\* the element type; it is false for a null list and for an empty list.
C26_AnyBetween ==
    (/\ last.op = "evaluate"
     /\ last.filter.kind = "Between"
     /\ last.filter.any)
    => LET vals == record.object[last.filter.property.data_type]
       IN /\ last.res = Ok(/\ ~vals.none
                           /\ \E i \in DOMAIN vals.v :
                                 scalar_between(last.filter, vals.v[i]))
          /\ vals.none => last.res = Ok(FALSE)
          /\ vals = Some(<<>>) => last.res = Ok(FALSE)

C26_Witness ==
    /\ last.op = "evaluate"
    /\ last.filter.kind = "Between"
    /\ last.filter.any
    /\ last.filter.property.data_type = "FloatList"
    /\ last.filter.lower = Float(1)
    /\ last.filter.upper = Float(1)
    /\ record.object["FloatList"] = Some(<<NaN, Float(1)>>)
    /\ last.res = Ok(TRUE)

\* the records with a string or a string list
StringRecords ==
    UNION {{[id |-> 0, object |-> [DefaultObject EXCEPT ![data_type] = v],
             links |-> NoLinks] : v \in ValuesOf(data_type)} :
           data_type \in {"String", "StringList"}}

InitStringFilter ==
    /\ indexes = <<plain(1, "a")>>
    /\ primary = [k \in PKeys |-> None]
    /\ secondary = {}
    /\ links = {}
    /\ change_set = NoChangeSet
    /\ oid_counter = 0
    /\ last = [op |-> "new"]
    /\ issued = NoId
    /\ txn = OpenTxn(EmptyDb(PKeys))
    /\ threads = [t \in Threads |-> IdleThread]
    /\ qb = None
    /\ query = None
    /\ record \in StringRecords
    /\ errors = NoErrors
    /\ calls = NoCalls

\* the bounds given to Filter::string
OptFilterStrings == {None} \cup {Some(s) : s \in FilterStrings}

\* the values given to the string filters, some of them globs
Patterns == FilterStrings \cup {<<"*">>, <<"?">>, <<"a", "*">>}

EvaluateString(property, lower, upper, case_sensitive) ==
    Evaluate([lower |-> lower, upper |-> upper],
             string(property, lower, upper, case_sensitive),
             Cursors(record.links))

EvaluateStringFilter(name, property, value, case_sensitive) ==
    Evaluate([value |-> value],
             string_filter_create(name, property, value, case_sensitive),
             Cursors(record.links))

NextStringFilter ==
    \/ \E property \in Properties, case_sensitive \in BOOLEAN :
          \E lower \in OptFilterStrings, upper \in OptFilterStrings :
             EvaluateString(property, lower, upper, case_sensitive)
    \/ \E name \in StringFilters, property \in Properties :
          \E value \in Patterns, case_sensitive \in BOOLEAN :
             EvaluateStringFilter(name, property, value, case_sensitive)

SpecStringFilter == InitStringFilter /\ [][NextStringFilter]_vars

\* the string of the record as the filter compares it
compared(value) ==
    IF last.filter.case_sensitive THEN value.v ELSE to_lowercase(value.v)

\* C23 as claimed: a StringBetween without upper bound matches no record,
\* whatever the value (the null string too) and the lower bound; without
\* lower bound it accepts every non-null value <= the upper bound.
C23_NoUpperMatchesNothing ==
    (/\ last.op = "evaluate"
     /\ last.filter.kind = "StringBetween"
     /\ ~last.filter.any)
    => LET value == record.object["String"]
       IN /\ last.filter.upper.none => last.res = Ok(FALSE)
          /\ (last.filter.lower.none /\ ~last.filter.upper.none /\ ~value.none)
             => last.res = Ok(str_le(compared(value), last.filter.upper.v))

\* C23 amended: a StringBetween without upper bound matches no non-null
\* value, whatever the lower bound; the null string is matched exactly when
\* the lower bound is absent, whatever the upper bound; without lower bound
\* it accepts every non-null value <= the upper bound.
C23_NoUpperMatchesOnlyNull ==
    (/\ last.op = "evaluate"
     /\ last.filter.kind = "StringBetween"
     /\ ~last.filter.any)
    => LET value == record.object["String"]
       IN /\ (last.filter.upper.none /\ ~value.none) => last.res = Ok(FALSE)
          /\ value.none => last.res = Ok(last.filter.lower.none)
          /\ (last.filter.lower.none /\ ~last.filter.upper.none /\ ~value.none)
             => last.res = Ok(str_le(compared(value), last.filter.upper.v))

C23_Witness ==
    /\ last.op = "evaluate"
    /\ last.filter.kind = "StringBetween"
    /\ ~last.filter.any
    /\ last.filter.lower = None
    /\ last.filter.upper = None
    /\ record.object["String"] = None
    /\ last.res = Ok(TRUE)

\* C27: StringStartsWith(p, case sensitive) accepts a record iff its string
\* is non-null and begins with p; the case-insensitive variant accepts iff
\* lower(value) begins with lower(p); a null string is never accepted by
\* StartsWith, EndsWith or Matches.
C27_StartsWith ==
    (/\ last.op = "evaluate"
     /\ last.filter.kind \in StringFilters
     /\ ~last.filter.any)
    => LET value == record.object["String"]
           p == last.args.value
       IN /\ value.none => last.res = Ok(FALSE)
          /\ (last.filter.kind = "StringStartsWith" /\ ~value.none)
             => last.res =
                  IF last.filter.case_sensitive
                  THEN Ok(starts_with(value.v, p))
                  ELSE Ok(starts_with(to_lowercase(value.v), to_lowercase(p)))

C27_Witness ==
    /\ last.op = "evaluate"
    /\ last.filter.kind = "StringStartsWith"
    /\ ~last.filter.any
    /\ ~last.filter.case_sensitive
    /\ last.args.value = <<"A">>
    /\ record.object["String"] = Some(<<"a", "b">>)
    /\ last.res = Ok(TRUE)

\* the records a link leads to
LinkTargets ==
    {[id |-> oid, object |-> [DefaultObject EXCEPT !["Long"] = oid]] :
       oid \in {0, 1}}

\* the link databases: the records linked to the records 0 and 1, in order
LinkDbs ==
    {[oid \in Ints |-> IF oid \in DOMAIN f THEN f[oid] ELSE <<>>] :
       f \in [{0, 1} -> SeqsUpTo(LinkTargets, MaxList)]}

LinkRecords ==
    {[id |-> t.id, object |-> t.object, links |-> db] :
       t \in LinkTargets, db \in LinkDbs}

InitLinkFilter ==
    /\ indexes = <<plain(1, "a")>>
    /\ primary = [k \in PKeys |-> None]
    /\ secondary = {}
    /\ links = {}
    /\ change_set = NoChangeSet
    /\ oid_counter = 0
    /\ last = [op |-> "new"]
    /\ issued = NoId
    /\ txn = OpenTxn(EmptyDb(PKeys))
    /\ threads = [t \in Threads |-> IdleThread]
    /\ qb = None
    /\ query = None
    /\ record \in LinkRecords
    /\ errors = NoErrors
    /\ calls = NoCalls

\* the filters under a Link: constants, filters over the linked record and
\* Link filters over the records linked to it
SubFilters ==
    LET flat == {Static(TRUE), Static(FALSE), IdBetween(1, 1),
                 primitive_create("Long", [data_type |-> "Long"], 1, 1).v}
    IN flat \cup {Link(f) : f \in flat}

EvaluateLink(filter, cursors) ==
    Evaluate(<<filter>>, [err |-> "Ok", v |-> Link(filter)], cursors)

NextLinkFilter ==
    \/ \E filter \in SubFilters, cursors \in {None, Cursors(record.links)} :
          EvaluateLink(filter, cursors)
    \/ \E lower \in Ints, upper \in Ints : EvaluateId(lower, upper)

SpecLinkFilter == InitLinkFilter /\ [][NextLinkFilter]_vars

RECURSIVE satisfies(_, _, _)
\* a record satisfies a filter, the links read from the link database
satisfies(filter, rec, db) ==
    IF filter.kind = "Link"
    THEN \E i \in DOMAIN db[rec.id] : satisfies(filter.filter, db[rec.id][i], db)
    ELSE evaluate(filter, rec.id, rec.object, Cursors(db)).v

\* C28: Link(link, sub_filter) evaluated with cursors is true iff at least
\* one record linked to the evaluated record satisfies sub_filter, for every
\* sub_filter, also one that contains Link conditions; evaluated without
\* cursors it returns VersionError.
C28_LinkAnyLinkedRecord ==
    (last.op = "evaluate" /\ last.filter.kind = "Link")
    => IF last.cursors.none
       THEN last.res = VersionError
       ELSE last.res = Ok(satisfies(last.filter, record, record.links))

(* ------------------------------------------------------------------ *)
(* The error codes of the bridge and the buffer of their messages       *)
(* ------------------------------------------------------------------ *)

\* the width of an error code, standing for the 64 bits of i64
HandleBits == 4

HANDLE_MAX == 2 ^ (HandleBits - 1) - 1

HANDLE_MIN == 0 - 2 ^ (HandleBits - 1)

\* i64::wrapping_add(1) on the counter
wrapping_add_1(counter) ==
    IF counter = HANDLE_MAX THEN HANDLE_MIN ELSE counter + 1

\* the messages of the errors: IsarError::to_string
Messages == {"IllegalArg", "VersionError"}

\* the outcomes of the closure a bridge call runs
CallResults == {[ok |-> TRUE]} \cup {[ok |-> FALSE, msg |-> msg] : msg \in Messages}

\* DartErrCode::into_dart_err_code: the buffer after the error, and its code
into_dart_err_code(e, msg) ==
    LET kept == IF Len(e.list) > 10 THEN Tail(e.list) ELSE e.list
        err_code == e.counter
        counter == wrapping_add_1(e.counter)
    IN [errors |-> [list |-> Append(kept, [code |-> err_code, msg |-> msg]),
                    counter |-> IF counter = 0 THEN 1 ELSE counter],
        err_code |-> err_code]

\* the handle of the error before this call, 0 when there was none
last_handle == IF last.op = "new" THEN 0 ELSE last.handle

ErrorsFrame == UNCHANGED <<indexes, primary, secondary, links, change_set,
                           oid_counter, issued, txn, threads, qb, query,
                           record, calls>>

\* the build holds one of the two isar_try! macros
compiled(macro) == last.op # "new" => last.macro = macro

\* isar_try! of error.rs around a call with the given outcome
IsarTry(result) ==
    /\ compiled("error.rs")
    /\ IF result.ok
       THEN /\ last' = [op |-> "isar_try", macro |-> "error.rs", ok |-> TRUE,
                        code |-> 0, handle |-> last_handle,
                        before |-> last_handle]
            /\ UNCHANGED errors
       ELSE LET r == into_dart_err_code(errors, result.msg)
            IN /\ errors' = r.errors
               /\ last' = [op |-> "isar_try", macro |-> "error.rs",
                           ok |-> FALSE, code |-> r.err_code,
                           handle |-> r.err_code, before |-> last_handle]
    /\ ErrorsFrame

\* isar_try! of isar_try.rs: the error is printed and the call returns 1
IsarTryPrint(result) ==
    /\ compiled("isar_try.rs")
    /\ last' = [op |-> "isar_try", macro |-> "isar_try.rs", ok |-> result.ok,
                code |-> IF result.ok THEN 0 ELSE 1,
                handle |-> IF result.ok THEN last_handle ELSE 1,
                before |-> last_handle]
    /\ UNCHANGED errors
    /\ ErrorsFrame

\* a lookup that returns the newest message whatever the code
isar_get_error_newest(e, err_code) ==
    IF e.list = <<>> THEN None ELSE Some(e.list[Len(e.list)].msg)

\* isar_get_error: the message of the first entry with the code, else null
isar_get_error(e, err_code) ==
    LET found == {i \in DOMAIN e.list : e.list[i].code = err_code}
    IN IF found = {} THEN None
       ELSE Some(e.list[CHOOSE i \in found : \A j \in found : i <= j].msg)

\* the codes asked for: 0, the first handle, the handle not yet issued,
\* the oldest and the newest retained
GetCodes ==
    {0, 1, errors.counter}
    \cup {errors.list[i].code : i \in DOMAIN errors.list \cap {1, Len(errors.list)}}

\* a call of isar_get_error
GetError(err_code) ==
    /\ last.op # "new"
    /\ last' = [op |-> "get_error", macro |-> last.macro,
                handle |-> last.handle, before |-> last.before,
                code |-> err_code, res |-> isar_get_error(errors, err_code)]
    /\ UNCHANGED errors
    /\ ErrorsFrame

NextErrors ==
    \/ \E result \in CallResults : IsarTry(result)
    \/ \E result \in CallResults : IsarTryPrint(result)
    \/ \E err_code \in GetCodes : GetError(err_code)

InitErrors ==
    /\ indexes = <<plain(1, "a")>>
    /\ primary = [k \in PKeys |-> None]
    /\ secondary = {}
    /\ links = {}
    /\ change_set = NoChangeSet
    /\ oid_counter = 0
    /\ last = [op |-> "new"]
    /\ issued = NoId
    /\ txn = OpenTxn(EmptyDb(PKeys))
    /\ threads = [t \in Threads |-> IdleThread]
    /\ qb = None
    /\ query = None
    /\ record = None
    /\ errors = NoErrors
    /\ calls = NoCalls

SpecErrors == InitErrors /\ [][NextErrors]_vars

\* C29: the error buffer of the bridge never holds more than 10 messages:
\* after any number of failing calls it holds the messages of the most
\* recent min(k, 10) errors, the oldest evicted first.
C29_BufferHoldsLastTen ==
    [][/\ Len(errors'.list) <= 10
       /\ (last'.op = "isar_try" /\ ~last'.ok /\ errors' # errors)
          => LET kept == IF Len(errors.list) >= 10 THEN Tail(errors.list)
                         ELSE errors.list
             IN /\ Len(errors'.list) = Len(kept) + 1
                /\ SubSeq(errors'.list, 1, Len(kept)) = kept
                /\ errors'.list[Len(errors'.list)].code = last'.code]_vars

\* C30: every fallible bridge call returns 0 iff it succeeded; each error
\* gets a nonzero handle, the handles are issued in strictly increasing
\* order starting at 1, never 0 even when the counter wraps, and no two
\* errors retained in the buffer share a handle.
C30_HandlesIncrease ==
    /\ last.op = "isar_try"
       => /\ last.code = 0 <=> last.ok
          /\ ~last.ok => /\ last.handle # 0
                         /\ last.handle > last.before
                         /\ last.before = 0 => last.handle = 1
    /\ \A i, j \in DOMAIN errors.list :
          i # j => errors.list[i].code # errors.list[j].code

\* the children of the last And or Or that end its evaluation: the ones
\* that fail and the ones that decide (false for And, true for Or)
stopping ==
    {i \in DOMAIN last.filter.filters :
       LET r == evaluated(last.filter.filters[i])
       IN r.err # "Ok" \/ r.v = (last.filter.kind = "Or")}

\* C39: And and Or evaluate their children left to right and stop at the
\* first deciding child (false for And, true for Or): an erroring child
\* after the deciding child does not make the result an error, an erroring
\* child before it makes the evaluation return that error.
C39_ShortCircuit ==
    (last.op = "evaluate" /\ last.filter.kind \in {"And", "Or"})
    => IF stopping = {}
       THEN last.res = Ok(last.filter.kind = "And")
       ELSE LET first == CHOOSE i \in stopping : \A j \in stopping : i <= j
                r == evaluated(last.filter.filters[first])
            IN IF r.err # "Ok" THEN last.res = r
               ELSE last.res = Ok(last.filter.kind = "Or")

C39_Witness ==
    /\ last.op = "evaluate"
    /\ last.filter = Or(<<Static(TRUE), Link(Static(TRUE))>>)
    /\ last.cursors = None
    /\ last.res = Ok(TRUE)

\* the case-sensitive StringBetween over the lowercased bounds given to the
\* last filter, on the lowercased string of the record
lowercased_result ==
    LET value == record.object["String"]
    IN evaluate(string(last.filter.property, map_to_lowercase(last.args.lower),
                       map_to_lowercase(last.args.upper), TRUE).v,
                record.id,
                [record.object EXCEPT !["String"] = map_to_lowercase(value)],
                last.cursors)

\* C40: for a record whose string is null, StringBetween(lo, hi) accepts iff
\* the lower bound is absent, whatever the upper bound and the case
\* sensitivity; without case sensitivity the result on a non-null value is
\* the case-sensitive result on the lowercased value and lowercased bounds.
C40_NullBelowEveryString ==
    (/\ last.op = "evaluate"
     /\ last.filter.kind = "StringBetween"
     /\ ~last.filter.any)
    => LET value == record.object["String"]
       IN /\ value.none => last.res = Ok(last.args.lower.none)
          /\ (~value.none /\ ~last.filter.case_sensitive)
             => last.res = lowercased_result

C40_Witness ==
    /\ last.op = "evaluate"
    /\ last.filter.kind = "StringBetween"
    /\ ~last.filter.any
    /\ ~last.filter.case_sensitive
    /\ last.args.lower = None
    /\ last.args.upper = Some(<<"A">>)
    /\ record.object["String"] = None
    /\ last.res = Ok(TRUE)

\* the entries of the buffer with a code
retained(code) == {i \in DOMAIN errors.list : errors.list[i].code = code}

\* C31: isar_get_error(code) returns the message recorded for the error
\* with that handle while it is retained in the buffer, and null for code
\* 0, for a handle not issued and for a handle whose message was evicted;
\* it never returns the message of another error.
C31_GetError ==
    [][/\ last'.op = "get_error"
          => /\ \A i \in retained(last'.code) :
                   last'.res = Some(errors.list[i].msg)
             /\ retained(last'.code) = {} => last'.res = None
             /\ last'.code = 0 => last'.res = None
             /\ (last'.code = errors.counter /\ Len(errors.list) < 10)
                => last'.res = None
       /\ (last'.op = "isar_try" /\ errors' # errors)
          => /\ isar_get_error(errors', last'.code)
                  = Some(errors'.list[Len(errors'.list)].msg)
             /\ Len(errors'.list) = Len(errors.list)
                => isar_get_error(errors', errors.list[1].code) = None]_vars

C31_Witness ==
    /\ last.op = "get_error"
    /\ last.code = 1
    /\ last.res = None
    /\ Len(errors.list) > 10
    /\ errors.list[1].code = 2
    /\ errors.list[1].msg # errors.list[2].msg

\* C33: when put overwrites an existing id, the change set registers both
\* the removed old object and the written new object, so on commit a
\* query-watcher that matches the old object but not the new one fires, as
\* does one that matches only the new object.
C33_OverwriteRegistersBoth ==
    [][/\ (last'.op = "put" /\ last'.res = "Ok" /\ last'.existed /\ change_set.some)
          => LET oid == read_long(last'.object)
             IN /\ <<id, oid, get(Db, oid)>> \in change_set'.changes
                /\ <<id, oid, last'.object>> \in change_set'.changes
       /\ (last'.op = "commit")
          => \A w \in QueryWatchers :
                (\E c \in change_set.changes : matches(w, c[1], c[2], c[3]))
                   => last'.fired[w] = 1]_vars

C33_Witness ==
    /\ last.op = "commit"
    /\ \E oid \in WatchOids :
          /\ primary[oid_to_bytes(oid, id)] # None
          /\ \E old \in last.changes, new \in last.changes :
                /\ last.changes = {old, new}
                /\ old[2] = oid /\ new[2] = oid
                /\ old[3].b = 1 /\ new[3].b = NumVals
                /\ primary[oid_to_bytes(oid, id)] = new[3]
    /\ last.fired[q1] = 1
    /\ last.fired[q2] = 1

\* C34: delete(id) for an id that is not stored returns false and changes
\* nothing: the primary store, the indexes, the links, oid_counter and the
\* change set of the transaction stay as they are, so the commit of a
\* transaction that performed only such deletes fires no watcher.
C34_DeleteAbsentIsNoOp ==
    [][/\ (last'.op = "delete" /\ get(Db, last'.oid) = None)
          => /\ last'.res = FALSE
             /\ UNCHANGED <<primary, secondary, links, oid_counter, change_set>>
       /\ (last'.op = "commit" /\ change_set.changes = {})
          => \A w \in Watchers : last'.fired[w] = 0]_vars

C34_Witness ==
    /\ last.op = "delete"
    /\ last.res = FALSE
    /\ txn.open
    /\ change_set = SomeChangeSet({})
    /\ txn.begin.primary = primary
    /\ \E k \in PKeys : primary[k] # None
    /\ get(Db, last.oid) = None

\* C35: a put that returns an error (InvalidObject or an index error)
\* leaves oid_counter unchanged, so the auto_increment that follows returns
\* the id it would have returned without the failed put.
C35_FailedPutKeepsCounter ==
    [][(last'.op = "put" /\ last'.res # "Ok") => oid_counter' = oid_counter]_vars

(* ------------------------------------------------------------------ *)
(* import_json: a batch of puts decoded from a JSON value               *)
(* ------------------------------------------------------------------ *)

\* most elements of an imported JSON array
MaxJson == 2

\* a JSON number and a JSON string
JsonNumber(n) == [type |-> "number", v |-> n]

JsonString == [type |-> "string", v |-> 0]

\* the elements of the arrays: objects with numbers, and one whose b is a
\* string, which no Long property can take
JsonElements ==
    {[oid |-> JsonNumber(oid), a |-> JsonNumber(1), b |-> JsonNumber(b)] :
        oid \in {MAX_OID - 1, MAX_OID}, b \in {1, 2}}
    \cup {[oid |-> JsonNumber(MAX_OID), a |-> JsonNumber(1), b |-> JsonString]}

\* serde_json::Value: an array of elements, or a value that is no array
JsonValues ==
    {[is_array |-> FALSE, v |-> <<>>]}
    \cup {[is_array |-> TRUE, v |-> v] :
            v \in UNION {[1..n -> JsonElements] : n \in 0..MaxJson}}

\* JsonEncodeDecode::decode and ObjectBuilder::finish: the object with the
\* numbers of the element, InvalidJson for a value its property cannot take
decode(value) ==
    IF \E p \in DOMAIN value : value[p].type # "number"
    THEN [err |-> "InvalidJson"]
    ELSE [err |-> "Ok",
          object |-> [oid |-> value.oid.v, a |-> value.a.v, b |-> value.b.v,
                      ok |-> TRUE]]

RECURSIVE import_all(_, _, _)
\* an import that goes on with the next element after one that failed
import_all(db, counter, array) ==
    IF array = <<>> THEN [err |-> "Ok", db |-> db, counter |-> counter]
    ELSE LET ob == decode(Head(array))
         IN IF ob.err # "Ok" THEN import_all(db, counter, Tail(array))
            ELSE LET r == put_internal(db, counter, ob.object)
                 IN import_all(r.db, r.counter, Tail(array))

RECURSIVE import_array(_, _, _)
\* the loop of import_json: decode and put each element, stop at the first
\* error
import_array(db, counter, array) ==
    IF array = <<>> THEN [err |-> "Ok", db |-> db, counter |-> counter]
    ELSE LET ob == decode(Head(array))
         IN IF ob.err # "Ok"
            THEN [err |-> ob.err, db |-> db, counter |-> counter]
            ELSE LET r == put_internal(db, counter, ob.object)
                 IN IF r.err # "Ok" THEN r
                    ELSE import_array(r.db, r.counter, Tail(array))

\* IsarCollection::import_json
import_json(db, counter, json) ==
    IF ~json.is_array
    THEN [err |-> "InvalidJson", db |-> db, counter |-> counter]
    ELSE import_array(db, counter, json.v)

ImportJson(json) ==
    LET r == import_json(Db, oid_counter, json)
    IN /\ Store(r.db)
       /\ oid_counter' = r.counter
       /\ last' = [op |-> "import_json", json |-> json, res |-> r.err]
       /\ UNCHANGED <<indexes, issued>>
       /\ UNCHANGED ext

InitJson ==
    /\ indexes = <<plain(1, "a"), uniq(2, "b")>>
    /\ primary = [k \in PKeys |-> None]
    /\ secondary = {}
    /\ links = {}
    /\ change_set = NoChangeSet
    /\ oid_counter = 0
    /\ last = [op |-> "new"]
    /\ issued = NoId
    /\ txn = OpenTxn(EmptyDb(PKeys))
    /\ threads = [t \in Threads |-> IdleThread]
    /\ qb = None
    /\ query = None
    /\ record = None
    /\ errors = NoErrors
    /\ calls = NoCalls

NextJson ==
    \/ \E json \in JsonValues : ImportJson(json)
    \/ \E oid \in {MAX_OID - 1, MAX_OID} : Delete(oid)

SpecJson == InitJson /\ [][NextJson]_vars

\* the collection after the first n elements of the array went through
\* decode and put one after the other, none attempted after a failure
after_puts(array) ==
    LET st[n \in 0..Len(array)] ==
          IF n = 0 THEN [err |-> "Ok", db |-> Db, counter |-> oid_counter]
          ELSE IF st[n - 1].err # "Ok" THEN st[n - 1]
          ELSE IF decode(array[n]).err # "Ok"
               THEN [st[n - 1] EXCEPT !.err = decode(array[n]).err]
          ELSE put_internal(st[n - 1].db, st[n - 1].counter,
                            decode(array[n]).object)
    IN st[Len(array)]

\* C32: import_json of a JSON value that is no array fails with InvalidJson
\* and writes nothing; of an array it does what put of each decoded element
\* in array order does, and when decoding or putting element k fails it
\* returns that error and puts no element after k.
C32_ImportJson ==
    [][(last'.op = "import_json")
       => IF ~last'.json.is_array
          THEN /\ last'.res = "InvalidJson"
               /\ UNCHANGED <<primary, secondary, links, change_set, oid_counter>>
          ELSE LET r == after_puts(last'.json.v)
               IN /\ last'.res = r.err
                  /\ primary' = r.db.primary
                  /\ secondary' = r.db.secondary
                  /\ links' = r.db.links
                  /\ change_set' = r.db.change_set
                  /\ oid_counter' = r.counter]_vars

C32_Witness ==
    /\ last.op = "import_json"
    /\ last.json.is_array
    /\ Len(last.json.v) = 2
    /\ last.json.v[1].oid.v = MAX_OID - 1
    /\ last.json.v[2].oid.v = MAX_OID
    /\ last.json.v[1].b = last.json.v[2].b
    /\ last.res = "UniqueViolation"
    /\ get(Db, MAX_OID - 1) # None
    /\ get(Db, MAX_OID) = None

\* ---------------------------------------------------------------------
\* Index where clauses and the deletion of a query's records
\* ---------------------------------------------------------------------

\* the keys of the index on the second property, in key order
IndexKeys == Vals

\* IndexKey::increase and IndexKey::decrease: the next and the previous key,
\* refused at the greatest and at the least key
increase(key) ==
    IF \A k \in IndexKeys : k <= key THEN [ok |-> FALSE, key |-> key]
    ELSE [ok |-> TRUE, key |-> key + 1]
decrease(key) ==
    IF \A k \in IndexKeys : key <= k THEN [ok |-> FALSE, key |-> key]
    ELSE [ok |-> TRUE, key |-> key - 1]

\* IndexWhereClause::new
IndexWhereClause(index, lower, upper, skip_duplicates, sort) ==
    [kind |-> "Index", index |-> index, lower |-> lower, upper |-> upper,
     skip_duplicates |-> skip_duplicates, sort |-> sort]

\* get_index_by_index: index_index counts from 0
get_index_by_index(all, index_index) ==
    IF index_index < Len(all) THEN Ok(all[index_index + 1]) ELSE IllegalArg

\* the bounds of a range in key order: lower, include_lower, upper,
\* include_upper, sort
ordered_bounds(start, include_start, end, include_end) ==
    IF start > end
    THEN [lower |-> end, include_lower |-> include_end, upper |-> start,
          include_upper |-> include_start, sort |-> "Descending"]
    ELSE [lower |-> start, include_lower |-> include_start, upper |-> end,
          include_upper |-> include_end, sort |-> "Ascending"]

\* an early return that leaves the builder as it was
add_index_where_clause_untouched(b, all, index_index, start, include_start, end, include_end, skip_duplicates) ==
    LET index == get_index_by_index(all, index_index)
        o == ordered_bounds(start, include_start, end, include_end)
        lower == IF o.include_lower THEN [ok |-> TRUE, key |-> o.lower]
                 ELSE increase(o.lower)
        upper == IF o.include_upper THEN [ok |-> TRUE, key |-> o.upper]
                 ELSE decrease(o.upper)
    IN IF index.err # "Ok" THEN [res |-> "IllegalArg", qb |-> b]
       ELSE IF ~lower.ok \/ ~upper.ok THEN [res |-> "Ok", qb |-> b]
       ELSE [res |-> "Ok",
             qb |-> [init_where_clauses(b) EXCEPT !.where_clauses.v =
                        Append(@, IndexWhereClause(index.v, lower.key,
                                                    upper.key,
                                                    skip_duplicates,
                                                    o.sort))]]

\* a range that keeps start as its lower bound whatever the order
add_index_where_clause_unordered(b, all, index_index, start, include_start, end, include_end, skip_duplicates) ==
    LET index == get_index_by_index(all, index_index)
        lower == IF include_start THEN [ok |-> TRUE, key |-> start]
                 ELSE increase(start)
        upper == IF include_end THEN [ok |-> TRUE, key |-> end]
                 ELSE decrease(end)
        b1 == init_where_clauses(b)
    IN IF index.err # "Ok" THEN [res |-> "IllegalArg", qb |-> b]
       ELSE IF ~lower.ok \/ ~upper.ok THEN [res |-> "Ok", qb |-> b1]
       ELSE [res |-> "Ok",
             qb |-> [b1 EXCEPT !.where_clauses.v =
                        Append(@, IndexWhereClause(index.v, lower.key,
                                                    upper.key,
                                                    skip_duplicates,
                                                    "Ascending"))]]

\* QueryBuilder::add_index_where_clause: the result and the builder after
\* the call
add_index_where_clause(b, all, index_index, start, include_start, end, include_end, skip_duplicates) ==
    LET index == get_index_by_index(all, index_index)
        o == ordered_bounds(start, include_start, end, include_end)
        b1 == init_where_clauses(b)
        lower == IF o.include_lower THEN [ok |-> TRUE, key |-> o.lower]
                 ELSE increase(o.lower)
        upper == IF o.include_upper THEN [ok |-> TRUE, key |-> o.upper]
                 ELSE decrease(o.upper)
    IN IF index.err # "Ok" THEN [res |-> "IllegalArg", qb |-> b]
       ELSE IF ~lower.ok \/ ~upper.ok THEN [res |-> "Ok", qb |-> b1]
       ELSE [res |-> "Ok",
             qb |-> [b1 EXCEPT !.where_clauses.v =
                        Append(@, IndexWhereClause(index.v, lower.key,
                                                    upper.key,
                                                    skip_duplicates,
                                                    o.sort))]]


\* isar_qb_add_index_where_clause; a range counts as nonempty unless an
\* exclusive bound of it is the greatest or the least key
QbAddIndexWhereClause(index_index, start, include_start, end, include_end, skip_duplicates) ==
    /\ qb # None
    /\ Len(qb.where_clauses.v) < MaxClauses
    /\ calls.added < MaxClauses
    /\ LET r == add_index_where_clause(qb, indexes, index_index, start,
                                       include_start, end, include_end,
                                       skip_duplicates)
           o == ordered_bounds(start, include_start, end, include_end)
           movable == /\ o.include_lower \/ \E k \in IndexKeys : k > o.lower
                      /\ o.include_upper \/ \E k \in IndexKeys : k < o.upper
       IN /\ qb' = r.qb
          /\ last' = [op |-> "add_index_where_clause",
                      args |-> [index_index |-> index_index, start |-> start,
                                include_start |-> include_start,
                                end |-> end, include_end |-> include_end,
                                skip_duplicates |-> skip_duplicates],
                      res |-> r.res]
          /\ calls' = IF r.res # "Ok" THEN calls
                      ELSE [added |-> calls.added + 1,
                            nonempty |-> calls.nonempty +
                                         (IF movable THEN 1 ELSE 0)]
    /\ UNCHANGED query
    /\ QueryFrame

\* isar_q_delete: the ids the query yields until the callback stops it, the
\* count written and the database after the ids are deleted
RECURSIVE delete_each(_, _)
delete_each(db, ids) ==
    IF ids = <<>> THEN db
    ELSE delete_each(delete_internal(db, Head(ids)).db, Tail(ids))

isar_q_delete(db, q, limit) ==
    LET ids == find_while(db, q)
        \* the callback pushes the id and continues while len() <= limit
        ids_to_delete == SubSeq(ids, 1, IF Len(ids) < limit + 1 THEN Len(ids)
                                        ELSE limit + 1)
    IN [count |-> Len(ids_to_delete), db |-> delete_each(db, ids_to_delete)]

QDelete(limit) ==
    /\ query # None
    /\ LET r == isar_q_delete(Db, query, limit)
       IN /\ Store(r.db)
          /\ last' = [op |-> "q_delete", limit |-> limit, count |-> r.count,
                      matched |-> find_while(Db, query), before |-> Db]
    /\ UNCHANGED <<indexes, oid_counter, issued>>
    /\ UNCHANGED ext

\* the collections the queries run over: an index on the second property,
\* each of two ids absent or stored with one of the values
WhereOids == {MAX_OID - 1, MAX_OID}
Stored == [WhereOids -> Vals \cup {0}]
stored_object(f, oid) == [oid |-> oid, a |-> 1, b |-> f[oid], ok |-> TRUE]

InitWhere ==
    /\ indexes = <<plain(1, "b")>>
    /\ \E f \in Stored :
          /\ primary = [k \in PKeys |->
                          IF k[2] \in WhereOids /\ f[k[2]] # 0
                          THEN stored_object(f, k[2]) ELSE None]
          /\ secondary = {index_entry(plain(1, "b"), oid,
                                      stored_object(f, oid)) :
                            oid \in {o \in WhereOids : f[o] # 0}}
    /\ links = {}
    /\ change_set = NoChangeSet
    /\ oid_counter = 0
    /\ last = [op |-> "new"]
    /\ issued = NoId
    /\ txn = OpenTxn(EmptyDb(PKeys))
    /\ threads = [t \in Threads |-> IdleThread]
    /\ qb = None
    /\ query = None
    /\ record = None
    /\ errors = NoErrors
    /\ calls = NoCalls

NextWhere ==
    \/ QbCreate
    \/ \E start \in WhereOids, end \in WhereOids :
          QbAddIdWhereClause(start, end)
    \/ \E index_index \in {0, 1}, start \in IndexKeys, end \in IndexKeys,
          include_start \in BOOLEAN, include_end \in BOOLEAN,
          skip_duplicates \in BOOLEAN :
          QbAddIndexWhereClause(index_index, start, include_start, end,
                                include_end, skip_duplicates)
    \/ QbBuild
    \/ FindWhile
    \/ \E limit \in {0, 1} : QDelete(limit)

SpecWhere == InitWhere /\ [][NextWhere]_vars

pushed(before, after) ==
    IF Len(after.where_clauses.v) > Len(before.where_clauses.v)
    THEN <<after.where_clauses.v[Len(after.where_clauses.v)]>>
    ELSE <<>>

\* the keys a pushed where clause ranges over
keys_of(clause) ==
    IF clause = <<>> THEN {}
    ELSE {k \in I64_MIN..I64_MAX : clause[1].lower <= k /\ k <= clause[1].upper}

\* the directions of the where clauses in a sequence
sorts_of(clause) == {clause[i].sort : i \in 1..Len(clause)}

\* C37: a call of add_id_where_clause or add_index_where_clause with
\* start > end pushes a clause over the keys the call with the bounds and
\* their include flags swapped pushes, Descending where that one is
\* Ascending; the bounds stored are, before an exclusive bound is moved,
\* the smaller and the greater of start and end; an index range with
\* start = end and an exclusive end yields no record.
C37_BoundsNormalised ==
    [][/\ last'.op = "add_id_where_clause" =>
            LET a == last'.args
                mine == pushed(qb, qb')
                swapped == pushed(qb, add_id_where_clause(qb, a.end, a.start))
            IN /\ a.start > a.end =>
                    /\ keys_of(mine) = keys_of(swapped)
                    /\ sorts_of(mine) = {"Descending"}
                    /\ sorts_of(swapped) = {"Ascending"}
               /\ mine # <<>>
               /\ mine[1].lower <= mine[1].upper
               /\ {mine[1].lower, mine[1].upper} = {a.start, a.end}
       /\ last'.op = "add_index_where_clause" /\ last'.res = "Ok" =>
            LET a == last'.args
                mine == pushed(qb, qb')
                swapped == pushed(qb, add_index_where_clause(
                               qb, indexes, a.index_index, a.end,
                               a.include_end, a.start, a.include_start,
                               a.skip_duplicates).qb)
            IN /\ a.start > a.end =>
                    /\ keys_of(mine) = keys_of(swapped)
                    /\ sorts_of(mine) \subseteq {"Descending"}
                    /\ sorts_of(swapped) \subseteq {"Ascending"}
               /\ mine # <<>> =>
                    LET wc == mine[1]
                        include_lower == IF wc.sort = "Ascending"
                                         THEN a.include_start
                                         ELSE a.include_end
                        include_upper == IF wc.sort = "Ascending"
                                         THEN a.include_end
                                         ELSE a.include_start
                        lower == IF include_lower THEN wc.lower
                                 ELSE wc.lower - 1
                        upper == IF include_upper THEN wc.upper
                                 ELSE wc.upper + 1
                    IN /\ lower <= upper
                       /\ (wc.sort = "Descending") = (a.start > a.end)
                       /\ lower = IF a.start > a.end THEN a.end ELSE a.start
                       /\ upper = IF a.start > a.end THEN a.start ELSE a.end
               /\ a.start = a.end /\ ~a.include_end =>
                    /\ keys_of(mine) = {}
                    /\ mine # <<>> => scan(Db, mine[1]) = <<>>
      ]_vars

\* a Descending index range over stored keys was pushed by a call with
\* start > end and an exclusive bound
C37_Witness ==
    /\ last.op = "add_index_where_clause"
    /\ last.res = "Ok"
    /\ last.args.start > last.args.end
    /\ ~last.args.include_start
    /\ qb.where_clauses.v # <<>>
    /\ qb.where_clauses.v[1].sort = "Descending"
    /\ scan(Db, qb.where_clauses.v[1]) # <<>>

\* C38: isar_q_delete deletes the first min(limit, matched) records the
\* query yields, writes that number to count and leaves every other record
\* as it was.
C38_DeletesAtMostLimit ==
    last.op = "q_delete" =>
      LET n == IF Len(last.matched) < last.limit THEN Len(last.matched)
               ELSE last.limit
          gone == {last.matched[i] : i \in 1..n}
      IN /\ last.count = n
         /\ \A oid \in LinkOids :
               get(Db, oid) = IF oid \in gone THEN None
                              ELSE get(last.before, oid)

====
